---- MODULE Spec2Model ----
(***************************************************************************)
(* City of Kingston 311 chatbot backend (src/backend/main.py): the query   *)
(* routing and context-assembly pipeline of POST /query/stream and POST    *)
(* /query, with the pure helpers they call.  Text is modelled by strings   *)
(* and computed character by character, the way the Python code computes   *)
(* it; the external services (chat completions, embeddings, vector search, *)
(* HTTP) are inputs chosen with \E from small sets of outcomes.            *)
(***************************************************************************)
EXTENDS Integers, Sequences, FiniteSets, TLC

VARIABLES
    endpoint,          \* "stream" (POST /query/stream) or "query" (POST /query); "fn" in the pure-function specifications
    pc,                \* position of the request handler
    language,          \* request.language
    top_k,             \* request.top_k
    query,             \* request.query (overwritten by its English translation on the stream endpoint)
    user_language,     \* generate(): user_language
    dynamic,           \* generate(): dynamic
    intent_type,       \* intent_type of classify_question_intent
    category,          \* category of classify_question_intent
    user_address,      \* extract_address_clean(request.query), "" for None
    formatted_results, \* display records
    context_parts,     \* context blocks for the prompt
    sources,           \* sources of build_dynamic_context
    dyn_context,       \* citation blocks of build_dynamic_context
    full_answer,       \* the generated answer as the handler holds it
    events,            \* the server-sent events yielded so far (stream endpoint)
    response,          \* the QueryResponse or HTTP error returned (query endpoint)
    calls,             \* the calls made so far (external services and build_dynamic_context), in order
    faults,            \* the external calls that failed so far, in order
    cache,             \* _SITEMAP_CACHE
    now,               \* time.time()
    validation_result, \* generate(): validation_result, once the answer was validated
    fnIn,              \* input of the pure function under check
    fnOut,             \* its result
    frames,            \* the _fetch_sitemap_items calls of the requests in flight: position and locals
    running            \* the request whose code the event loop executes, 0 when it executes none

vars == <<endpoint, pc, language, top_k, query, user_language, dynamic, intent_type,
          category, user_address, formatted_results, context_parts, sources,
          dyn_context, full_answer, events, response, calls, faults, cache, now,
          validation_result, fnIn, fnOut, frames, running>>

-----------------------------------------------------------------------------
(* Python str operations                                                    *)

UpperLetters == "ABCDEFGHIJKLMNOPQRSTUVWXYZ"
LowerLetters == "abcdefghijklmnopqrstuvwxyz"
DigitChars == "0123456789"

Char(s, i) == SubSeq(s, i, i)

\* the characters of a string, as a set
CharsOf(alphabet) == {Char(alphabet, i) : i \in 1..Len(alphabet)}

LowerSet == CharsOf(LowerLetters)
UpperSet == CharsOf(UpperLetters)
DigitSet == CharsOf(DigitChars)

\* str.isspace of one character: what str.strip(), str.split() and \s remove
IsSpace(c) == c \in {" ", "\t", "\n", "\r", "\f"}

\* \w of one character
WordCharSet == LowerSet \cup UpperSet \cup DigitSet \cup {"_"}
IsWordChar(c) == c \in WordCharSet

\* \d of one character
IsDigit(c) == c \in DigitSet

Min(S) == CHOOSE x \in S : \A y \in S : x <= y
Max(S) == CHOOSE x \in S : \A y \in S : x >= y

\* the least index of a set of positions, 0 when there is none
First(S) == IF S = {} THEN 0 ELSE Min(S)

\* the part of s between the least and the greatest of the positions kept
Between(s, keep) == IF keep = {} THEN "" ELSE SubSeq(s, Min(keep), Max(keep))

\* s[i:]  (1-based i)
From(s, i) == SubSeq(s, i, Len(s))

\* s[i - 1 : i - 1 + len(k)] == k: k occurs at position i of s
OccursAt(s, i, k) == i >= 1 /\ i + Len(k) - 1 <= Len(s) /\ SubSeq(s, i, i + Len(k) - 1) = k

\* k in s
StrContains(s, k) == \E i \in 1..(Len(s) - Len(k) + 1) : OccursAt(s, i, k)

\* s.startswith(k)
StartsWith(s, k) == OccursAt(s, 1, k)

\* s.find(k, from): the first index >= from where k occurs, 0 when none
Find(s, k, from) == First({i \in from..(Len(s) - Len(k) + 1) : OccursAt(s, i, k)})

\* c.lower() and c.upper() of one letter
ToLower == [c \in UpperSet |-> Char(LowerLetters, CHOOSE i \in 1..Len(UpperLetters) : Char(UpperLetters, i) = c)]
ToUpper == [c \in LowerSet |-> Char(UpperLetters, CHOOSE i \in 1..Len(LowerLetters) : Char(LowerLetters, i) = c)]

RECURSIVE MapStr(_, _)
\* s with every character in the domain of the table replaced by its image
\* (by halves, so that the depth of the recursion is logarithmic in Len(s))
MapStr(s, table) ==
    IF Len(s) <= 1 THEN (IF s \in DOMAIN table THEN table[s] ELSE s)
    ELSE MapStr(SubSeq(s, 1, Len(s) \div 2), table) \o MapStr(From(s, Len(s) \div 2 + 1), table)

\* s.lower()
Lower(s) == MapStr(s, ToLower)

\* s.upper()
Upper(s) == MapStr(s, ToUpper)

\* s.strip()
Strip(s) == Between(s, {i \in 1..Len(s) : ~IsSpace(Char(s, i))})

\* s.strip(c) for one character c
StripChar(s, c) == Between(s, {i \in 1..Len(s) : Char(s, i) # c})

RECURSIVE SplitOn(_, _)
\* s.split(sep) for a one-character separator
SplitOn(s, sep) ==
    LET i == Find(s, sep, 1)
    IN  IF i = 0 THEN <<s>> ELSE <<SubSeq(s, 1, i - 1)>> \o SplitOn(From(s, i + 1), sep)

RECURSIVE SplitWords(_)
\* s.split(): the maximal runs of non-whitespace characters
SplitWords(s) ==
    LET t == Strip(s)
        gaps == {i \in 1..Len(t) : IsSpace(Char(t, i))}
    IN  IF t = "" THEN <<>>
        ELSE IF gaps = {} THEN <<t>>
        ELSE <<SubSeq(t, 1, Min(gaps) - 1)>> \o SplitWords(From(t, Min(gaps)))

RECURSIVE Join(_, _)
\* sep.join(parts)
Join(parts, sep) ==
    IF parts = <<>> THEN ""
    ELSE IF Len(parts) = 1 THEN parts[1]
    ELSE parts[1] \o sep \o Join(Tail(parts), sep)

\* the first index >= i whose character is not in the class, Len(s)+1 when none
SkipWhile(s, i, InClass(_)) ==
    LET stops == {j \in i..Len(s) : ~InClass(Char(s, j))}
    IN  IF stops = {} THEN Len(s) + 1 ELSE Min(stops)

RECURSIVE SquashFrom(_, _, _, _, _, _)
\* SquashRuns from position pos on: starts holds the first index of every run
\* of the class, stops the first index after every run
SquashFrom(s, pos, starts, stops, atLeast, repl) ==
    LET ahead == {b \in starts : b >= pos}
        start == Min(ahead)
        stop == Min({e \in stops : e > start})
    IN  IF ahead = {} THEN From(s, pos)
        ELSE SubSeq(s, pos, start - 1)
             \o (IF stop - start >= atLeast THEN repl ELSE SubSeq(s, start, stop - 1))
             \o SquashFrom(s, stop, starts, stops, atLeast, repl)

\* re.sub(r"<class>{atLeast,}", repl, s): every maximal run of at least atLeast
\* characters of the class becomes repl (one step of the recursion per run)
SquashRuns(s, InClass(_), atLeast, repl) ==
    LET inClass == {i \in 1..Len(s) : InClass(Char(s, i))}
        starts == {i \in inClass : i - 1 \notin inClass}
        stops == {i + 1 : i \in {j \in inClass : j + 1 \notin inClass}}
    IN  IF inClass = {} THEN s ELSE SquashFrom(s, 1, starts, stops, atLeast, repl)

-----------------------------------------------------------------------------
(* Retrieval helpers                                                        *)

IsNotLowerAlnum(c) == c \notin LowerSet \cup DigitSet

_normalize_category(value) ==
    IF value = "" THEN "" ELSE StripChar(SquashRuns(Lower(Strip(value)), IsNotLowerAlnum, 1, "_"), "_")

\* \b at the boundary before position i of s
WordBoundary(s, i) ==
    LET before == i > 1 /\ i - 1 <= Len(s) /\ IsWordChar(Char(s, i - 1))
        after == i >= 1 /\ i <= Len(s) /\ IsWordChar(Char(s, i))
    IN  before # after

\* re.IGNORECASE: lit (in lower case) occurs at position i of text
MatchesAt(text, i, lit) ==
    /\ i >= 1
    /\ i + Len(lit) - 1 <= Len(text)
    /\ LET c == Char(text, i) IN (IF c \in UpperSet THEN ToLower[c] ELSE c) = Char(lit, 1)
    /\ Lower(SubSeq(text, i, i + Len(lit) - 1)) = lit

\* the first index >= from where lit occurs in text whatever the case, 0 when none
FindNoCase(text, lit, from) ==
    First({i \in from..(Len(text) - Len(lit) + 1) : MatchesAt(text, i, lit)})

RECURSIVE SubPhrase(_, _, _)
RECURSIVE SubPhraseAt(_, _, _, _)
\* SubPhrase when the first match at or after `from` is at position hit (0: none)
SubPhraseAt(text, phrase, from, hit) ==
    IF hit = 0 THEN From(text, from)
    ELSE SubSeq(text, from, hit - 1) \o " " \o SubPhrase(text, phrase, hit + Len(phrase))

\* re.sub(r"\b<phrase>\b", " ", text, flags=re.IGNORECASE) from position `from`
\* (phrase in lower case)
SubPhrase(text, phrase, from) ==
    SubPhraseAt(text, phrase, from,
                First({i \in from..(Len(text) - Len(phrase) + 1) :
                          /\ MatchesAt(text, i, phrase)
                          /\ WordBoundary(text, i)
                          /\ WordBoundary(text, i + Len(phrase))}))

RECURSIVE AfterChain(_, _, _)
RECURSIVE AfterLiteral(_, _, _)
\* AfterChain when the first literal is found at position j (0: not found)
AfterLiteral(text, lits, j) ==
    IF j = 0 THEN 0 ELSE AfterChain(text, Tail(lits), j + Len(Head(lits)))

\* the position after the literals lits, each found lazily (.*?) after the one
\* before it, searching from position pos; 0 when one of them is not found
AfterChain(text, lits, pos) ==
    IF lits = <<>> THEN pos ELSE AfterLiteral(text, lits, FindNoCase(text, Head(lits), pos))

RECURSIVE SubSpan(_, _, _, _)
RECURSIVE SubSpanAt(_, _, _, _, _, _)
\* SubSpan when the first match at or after `from` starts at position i and its
\* literals end before position j (0: no match), up to the "\n\n" found at stop
SubSpanAt(text, lits, repl, from, i, j) ==
    IF j = 0 THEN From(text, from)
    ELSE SubSeq(text, from, i - 1) \o repl
         \o (IF Find(text, "\n\n", j) = 0 THEN ""
             ELSE SubSpan(text, lits, repl, Find(text, "\n\n", j)))

\* re.sub(r"<lits[1]>.*?<lits[2]>.*? ... .*?(?=\n\n|\Z)", repl, text,
\* flags=re.DOTALL | re.IGNORECASE) from position `from` (literals in lower case)
SubSpan(text, lits, repl, from) ==
    SubSpanAt(text, lits, repl, from, FindNoCase(text, Head(lits), from), AfterChain(text, lits, from))

IsBlank(c) == c \in {" ", "\t"}
IsNewline(c) == c = "\n"

\* the four boilerplate phrases, each replaced by a space
WithoutBoilerplate(raw) ==
    SubPhrase(SubPhrase(SubPhrase(SubPhrase(raw, "section menu", 1), "contact us", 1),
                        "city of kingston", 1), "city hall", 1)

\* the two cheque mailing patterns, each replaced by a space
WithoutCheque(text) ==
    SubSpan(SubSpan(text, <<"make your cheque payable to city of kingston and mail it to">>, " ", 1),
            <<"make your cheque payable", "po box 640">>, " ", 1)

_clean_retrieved_content(raw) ==
    IF raw = "" THEN ""
    ELSE Strip(SquashRuns(SquashRuns(WithoutCheque(WithoutBoilerplate(raw)), IsBlank, 1, " "),
                          IsNewline, 3, "\n\n"))

\* s[:n]
Prefix(s, n) == SubSeq(s, 1, IF Len(s) < n THEN Len(s) ELSE n)

\* A search match: score is <<>> when the match carries no score, and a metadata
\* field is "" when the metadata lacks it (md.get(field, "") or "")
to_item(m) ==
    [score |-> IF m.score = <<>> THEN 0 ELSE m.score[1],
     raw_content |-> m.content,
     category |-> m.category,
     topic |-> m.topic,
     source_url |-> m.source_url]

\* fault: the items stay in the order of the matches
Unsorted(items) == items

RECURSIVE SortByScore(_)
\* items.sort(key=lambda x: -(x.get("score") or 0.0)): stable, descending by score
SortByScore(items) ==
    IF items = <<>> THEN <<>>
    ELSE LET rest == SortByScore(Tail(items))
             x == Head(items)
             \* x goes before the first element of the sorted rest that does not outrank it
             later == {i \in 1..Len(rest) : rest[i].score <= x.score}
             k == IF later = {} THEN Len(rest) + 1 ELSE Min(later)
         IN  SubSeq(rest, 1, k - 1) \o <<x>> \o SubSeq(rest, k, Len(rest))

\* fault: the duplicate test never fires
NeverSeen(url, seen_urls) == FALSE

\* build_from: "if url and url in seen_urls: continue"
AlreadySeen(url, seen_urls) == url # "" /\ url \in seen_urls

\* fault: no chunk is skipped for its length
NeverTooShort(cleaned) == FALSE

\* build_from: "if len(cleaned) < 200: continue"
TooShort(cleaned) == Len(cleaned) < 200

\* build_from: "if len(context) >= top_k: break"
Enough(context, k) == Len(context) >= k

RECURSIVE BuildLoop(_, _, _, _, _, _)
RECURSIVE Consider(_, _, _, _, _, _, _)
\* the body of the for loop of build_from for the i-th candidate, whose cleaned
\* content is `cleaned`
Consider(candidates, i, k, formatted, context, seen_urls, cleaned) ==
    LET item == candidates[i]
        url == item.source_url
        formatted2 == Append(formatted,
                             [score |-> item.score, content |-> Prefix(cleaned, 500),
                              category |-> item.category, topic |-> item.topic,
                              source_url |-> url])
        context2 == Append(context, Prefix(cleaned, 2000))
    IN  IF AlreadySeen(url, seen_urls) THEN BuildLoop(candidates, i + 1, k, formatted, context, seen_urls)
        ELSE IF TooShort(cleaned) THEN BuildLoop(candidates, i + 1, k, formatted, context, seen_urls)
        ELSE IF Enough(context2, k) THEN <<formatted2, context2>>
        ELSE BuildLoop(candidates, i + 1, k, formatted2, context2,
                       IF url # "" THEN seen_urls \cup {url} ELSE seen_urls)

\* the for loop of build_from, from the i-th candidate on
BuildLoop(candidates, i, k, formatted, context, seen_urls) ==
    IF i > Len(candidates) THEN <<formatted, context>>
    ELSE Consider(candidates, i, k, formatted, context, seen_urls,
                  _clean_retrieved_content(candidates[i].raw_content))

\* build_from(candidate_items) with the enclosing top_k
build_from(candidate_items, k) ==
    LET candidate_limit == IF k * 6 > 20 THEN k * 6 ELSE 20
    IN  BuildLoop(Prefix(candidate_items, candidate_limit), 1, k, <<>>, <<>>, {})

\* the candidates of the first pass: the expected category only, when one is given
CategoryFiltered(items, expected_norm) ==
    IF expected_norm # ""
    THEN SelectSeq(items, LAMBDA it : _normalize_category(it.category) = expected_norm)
    ELSE items

\* fault: the result of the first pass is returned as it is
NoRetry(first, items, k) == first

\* "if not context_parts: formatted_results, context_parts = build_from(items)"
UnfilteredRetry(first, items, k) == IF first[2] = <<>> THEN build_from(items, k) ELSE first

\* <<formatted_results, context_parts>>
_select_context_and_results(matches, expected_category, k) ==
    LET expected_norm == _normalize_category(expected_category)
        items == SortByScore([i \in 1..Len(matches) |-> to_item(matches[i])])
    IN  UnfilteredRetry(build_from(CategoryFiltered(items, expected_norm), k), items, k)

-----------------------------------------------------------------------------
(* Dynamic (official-site) search helpers                                   *)

ALLOWED_DYNAMIC_DOMAINS ==
    {"cityofkingston.ca", "www.cityofkingston.ca", "mycity.cityofkingston.ca",
     "kingstontransit.ca", "www.kingstontransit.ca"}

\* The curated seed pages of a bucket ("" is the bucket None; the dash of the
\* lost-and-found title is written in ASCII)
CURATED_DYNAMIC_SOURCES(bucket) ==
    CASE bucket = "road_closures" ->
           <<[title |-> "Traffic and Road Closures",
              url |-> "https://www.cityofkingston.ca/roads-parking-and-transportation/road-maintenance/road-closures/"],
             [title |-> "Road Closures Map",
              url |-> "https://www.cityofkingston.ca/roads-parking-and-transportation/road-maintenance/road-closures/road-closures-map/"]>>
      [] bucket = "snow_removal" ->
           <<[title |-> "Winter Maintenance",
              url |-> "https://www.cityofkingston.ca/roads-parking-and-transportation/winter-maintenance/"],
             [title |-> "Snow Plow Tracker",
              url |-> "https://www.cityofkingston.ca/roads-parking-and-transportation/winter-maintenance/snow-plow-tracker/"],
             [title |-> "Winter Parking",
              url |-> "https://www.cityofkingston.ca/roads-parking-and-transportation/parking/winter-parking/"]>>
      [] bucket = "transit" ->
           <<[title |-> "Transit News and Notices",
              url |-> "https://www.cityofkingston.ca/news-and-notices/transit-news/"]>>
      [] bucket = "transit_lost_found" ->
           <<[title |-> "Kingston Transit - Lost and Found",
              url |-> "https://www.kingstontransit.ca/lost-and-found/"]>>
      [] OTHER -> <<>>

SITEMAP_TTL_SECONDS == 3600

\* any(k in q for k in terms)
AnyIn(q, terms) == \E k \in terms : StrContains(q, k)

\* urlparse: the URL after its scheme and colon, when it has a scheme
AfterScheme(url) ==
    LET colon == Find(url, ":", 1)
        schemeChars == LowerSet \cup UpperSet \cup DigitSet \cup {"+", "-", "."}
    IN  IF /\ colon > 1
           /\ Char(url, 1) \in LowerSet \cup UpperSet
           /\ \A i \in 1..(colon - 1) : Char(url, i) \in schemeChars
        THEN From(url, colon + 1)
        ELSE url

\* urlparse: the network location, between "//" and the next "/", "?" or "#"
NetLoc(rest) ==
    IF StartsWith(rest, "//")
    THEN SubSeq(rest, 3, First({i \in 3..Len(rest) : Char(rest, i) \in {"/", "?", "#"}} \cup {Len(rest) + 1}) - 1)
    ELSE ""

\* urlparse: the host and port of a network location, after the last "@"
HostPort(netloc) == From(netloc, Max({i \in 1..Len(netloc) : Char(netloc, i) = "@"} \cup {0}) + 1)

\* urlparse: the host of host:port, in lower case
HostOf(hostport) ==
    Lower(SubSeq(hostport, 1, First({i \in 1..Len(hostport) : Char(hostport, i) = ":"} \cup {Len(hostport) + 1}) - 1))

\* urlparse(url).hostname; "" when the URL has no network location
Hostname(url) == HostOf(HostPort(NetLoc(AfterScheme(url))))

\* fault: every host is accepted
AnyDomain(url) == TRUE

_is_allowed_domain(url) == Hostname(url) \in ALLOWED_DYNAMIC_DOMAINS

\* fault: no question is given a bucket
NoBucket(question) == ""

\* The bucket key, "" for None
classify_dynamic_bucket(question) ==
    LET q == Lower(question)
        time_hint == AnyIn(q, {"today", "tomorrow", "now", "right now", "current", "latest", "updated"})
        road_terms == {"road closure", "road closures", "road closed", "lane closed", "closure",
                       "traffic", "detour", "construction", "road work", "roadwork", "blocked",
                       "road blocked", "blockage"}
        construction_typos == AnyIn(q, {"contruc", "constuc", "construc"})
    IN  IF AnyIn(q, road_terms) \/ (time_hint /\ StrContains(q, "road")) \/ construction_typos
            THEN "road_closures"
        ELSE IF AnyIn(q, {"snow", "snow removal", "plow", "plowing", "winter maintenance", "winter"})
            THEN "snow_removal"
        ELSE IF /\ AnyIn(q, {"lost and found", "lost my", "lost wallet", "lost phone", "lost item"})
                /\ AnyIn(q, {"transit", "bus", "kingston transit"})
            THEN "transit_lost_found"
        ELSE IF AnyIn(q, {"transit", "bus", "kingston transit", "route", "detour", "delay",
                          "delayed", "cancelled", "canceled"})
            THEN "transit"
        ELSE IF StrContains(q, "weather") THEN "weather"
        ELSE ""

\* fault: no question is sent to the official-site search
NeverDynamic(question) == FALSE

is_dynamic_query(question) == classify_dynamic_bucket(question) # ""

\* The sitemap refresh test: "if _SITEMAP_CACHE["items"] and (now - ts) < TTL"
CacheFresh(c, t) == c.items # <<>> /\ (t - c.ts) < SITEMAP_TTL_SECONDS

\* The url entries of a fetched sitemap that the loop keeps: net.entries is the
\* parsed XML, each entry [loc, lastmod] with "" for an absent or empty element
SitemapEntries(net) ==
    LET stripped == [i \in 1..Len(net.entries) |->
                        [loc |-> Strip(net.entries[i].loc), lastmod |-> Strip(net.entries[i].lastmod)]]
    IN  SelectSeq(stripped, LAMBDA e : e.loc # "" /\ _is_allowed_domain(e.loc))

\* _fetch_sitemap_items() with the cache c, at time t, when the network answers
\* net ([ok, entries]; ok = FALSE: the GET or the XML parse raises):
\* [items: the list returned, cache: the cache afterwards, fetched: a GET was made]
_fetch_sitemap_items(c, t, net) ==
    IF CacheFresh(c, t) THEN [items |-> c.items, cache |-> c, fetched |-> FALSE]
    ELSE IF ~net.ok THEN [items |-> <<>>, cache |-> c, fetched |-> TRUE]
    ELSE [items |-> SitemapEntries(net),
          cache |-> [ts |-> t, items |-> SitemapEntries(net)],
          fetched |-> TRUE]

\* The characters of a lastmod value in code-point order
DateOrder == "+-.0123456789:TZ"

RECURSIVE StrLess(_, _)
\* a < b for two lastmod strings (Python compares code point by code point)
StrLess(a, b) ==
    IF b = "" THEN FALSE
    ELSE IF a = "" THEN TRUE
    ELSE IF Char(a, 1) = Char(b, 1) THEN StrLess(From(a, 2), From(b, 2))
    ELSE Find(DateOrder, Char(a, 1), 1) < Find(DateOrder, Char(b, 1), 1)

RECURSIVE SortByLastmod(_)
\* matches.sort(key=lastmod or "", reverse=True): descending, equal keys keep their order
SortByLastmod(items) ==
    IF items = <<>> THEN <<>>
    ELSE LET rest == SortByLastmod(Tail(items))
             x == Head(items)
             later == {i \in 1..Len(rest) : ~StrLess(x.lastmod, rest[i].lastmod)}
             k == IF later = {} THEN Len(rest) + 1 ELSE Min(later)
         IN  SubSeq(rest, 1, k - 1) \o <<x>> \o SubSeq(rest, k, Len(rest))

RECURSIVE PickLoop(_, _, _, _)
\* the for loop of _pick_latest from the i-th match on
PickLoop(matches, i, limit, urls) ==
    IF i > Len(matches) THEN urls
    ELSE LET loc == matches[i].loc
             urls2 == IF loc # "" /\ \A j \in 1..Len(urls) : urls[j] # loc THEN Append(urls, loc) ELSE urls
         IN  IF Len(urls2) >= limit THEN urls2 ELSE PickLoop(matches, i + 1, limit, urls2)

_pick_latest(items, url_substring, limit) ==
    PickLoop(SortByLastmod(SelectSeq(items, LAMBDA it : StrContains(it.loc, url_substring))), 1, limit, <<>>)

\* The sitemap-derived URLs of a bucket, in pick order
ExtraUrls(bucket, items) ==
    CASE bucket = "road_closures" ->
           _pick_latest(items, "/news/posts/weekly-traffic-report-", 3)
           \o _pick_latest(items, "/news/posts/traffic-report", 2)
      [] bucket = "transit" ->
           _pick_latest(items, "/news/posts/kingston-transit-service-alert", 4)
           \o _pick_latest(items, "/news-and-notices/transit-news/", 1)
      [] bucket = "snow_removal" ->
           _pick_latest(items, "/news/posts/winter-parking", 4)
           \o _pick_latest(items, "/news/posts/winter-services-response-plan", 2)
      [] OTHER -> <<>>

\* fault: a URL that was added before is added again
AddAcceptsSeen(url, seen) == url # "" /\ _is_allowed_domain(url)

\* select_dynamic_sources.add: the source is kept
AddAccepts(url, seen) == url # "" /\ url \notin seen /\ _is_allowed_domain(url)

RECURSIVE AddAll(_, _, _)
\* add(title, url) for every candidate in order
AddAll(candidates, seen, out) ==
    IF candidates = <<>> THEN out
    ELSE LET c == Head(candidates)
         IN  IF AddAccepts(c.url, seen)
             THEN AddAll(Tail(candidates), seen \cup {c.url}, Append(out, c))
             ELSE AddAll(Tail(candidates), seen, out)

\* select_dynamic_sources(bucket, query, max_results) when _fetch_sitemap_items()
\* returns items
select_dynamic_sources(bucket0, question, max_results, items) ==
    LET bucket == IF bucket0 # "" THEN bucket0 ELSE classify_dynamic_bucket(question)
        base == CURATED_DYNAMIC_SOURCES(bucket)
        extra_urls == ExtraUrls(bucket, items)
        extras == [i \in 1..Len(extra_urls) |-> [title |-> "Official update", url |-> extra_urls[i]]]
    IN  Prefix(AddAll(base \o extras, {}, <<>>), max_results)

\* extract_page_text(html): page.text is what BeautifulSoup's get_text gives
extract_page_text(page) == IF page.text = "" THEN "" ELSE _clean_retrieved_content(page.text)

\* fault: pages are accepted whatever the length of their text
AnyLength(page_text) == FALSE

\* build_dynamic_context: "if len(page_text) < 300: continue"
PageTooShort(page_text) == Len(page_text) < 300

\* The number a citation block of build_dynamic_context carries:
\* idx of "for idx, src in enumerate(sources, start=1)"
BlockIndex(idx, usable_sources) == idx

RECURSIVE FetchLoop(_, _, _, _, _)
RECURSIVE Fetched(_, _, _, _, _, _)
\* fault: the source is accepted without a citation block
AcceptedWithoutBlock(srcs, idx, max_results, web, acc, page_text) ==
    FetchLoop(srcs, idx + 1, max_results, web,
              [acc EXCEPT !.tried = Append(@, srcs[idx].url), !.sources = Append(@, srcs[idx])])

\* the body of the for loop of build_dynamic_context for the idx-th source, an
\* allowed URL, whose page gives the text page_text
Fetched(srcs, idx, max_results, web, acc, page_text) ==
    LET src == srcs[idx]
        url == src.url
        page == web[url]
        html_title == Strip(page.title)
        improved == Lower(Strip(src.title)) = "official update" /\ html_title # ""
        title == IF improved THEN Prefix(html_title, 120) ELSE Strip(src.title)
        block == [idx |-> BlockIndex(idx, acc.sources),
                  title |-> IF title = "" THEN "Official source" ELSE title,
                  url |-> url, snippet |-> Prefix(page_text, 3500)]
        tried == [acc EXCEPT !.tried = Append(@, url)]
        accepted == [tried EXCEPT !.blocks = Append(@, block),
                                  !.sources = Append(@, [title |-> IF improved THEN title ELSE src.title,
                                                          url |-> url])]
    IN  IF ~page.ok \/ PageTooShort(page_text)
        THEN FetchLoop(srcs, idx + 1, max_results, web, tried)
        ELSE IF Len(accepted.sources) >= max_results THEN accepted
        ELSE FetchLoop(srcs, idx + 1, max_results, web, accepted)

\* the for loop of build_dynamic_context from the idx-th source on; web maps a
\* URL to [ok, title, text]: ok = FALSE when _http_get raises.  acc holds
\* context_blocks, usable_sources, and the URLs passed to _http_get so far
FetchLoop(srcs, idx, max_results, web, acc) ==
    IF idx > Len(srcs) THEN acc
    ELSE IF srcs[idx].url = "" \/ ~_is_allowed_domain(srcs[idx].url)
    THEN FetchLoop(srcs, idx + 1, max_results, web, acc)
    ELSE Fetched(srcs, idx, max_results, web, acc, extract_page_text(web[srcs[idx].url]))

\* build_dynamic_context when _fetch_sitemap_items() gives sm and
\* select_dynamic_sources returns resolved
ContextOf(sm, resolved, max_results, web) ==
    LET got == FetchLoop(resolved, 1, max_results, web, [blocks |-> <<>>, sources |-> <<>>, tried |-> <<>>])
    IN  [sources |-> got.sources, blocks |-> got.blocks, tried |-> got.tried,
         cache |-> sm.cache, fetched |-> sm.fetched, resolved |-> resolved]

\* build_dynamic_context when _fetch_sitemap_items() gives sm
ContextWith(sm, question, max_results, web) ==
    ContextOf(sm, select_dynamic_sources(classify_dynamic_bucket(question), question, max_results, sm.items),
              max_results, web)

\* build_dynamic_context(query, max_results) with the cache c at time t, when the
\* sitemap GET answers net and the pages answer web:
\* [sources, blocks: the citation blocks whose join is context_text (empty iff
\* there is no block), tried: the page URLs fetched, cache: the cache afterwards,
\* fetched: a sitemap GET was made, resolved: what select_dynamic_sources returned]
build_dynamic_context(question, max_results, c, t, net, web) ==
    ContextWith(_fetch_sitemap_items(c, t, net), question, max_results, web)

-----------------------------------------------------------------------------
(* Classification, language and validation helpers.  A chat-completion      *)
(* response is [ok, content]: ok = FALSE when the call (or reading          *)
(* response.choices[0].message.content) raises.                             *)

\* re.search(r"\d+\s+\w+\s+(street|st|...)", q): a match starts at position i
StreetPatternAt(q, i) ==
    LET j == SkipWhile(q, i, IsDigit)
        k == SkipWhile(q, j, IsSpace)
        l == SkipWhile(q, k, IsWordChar)
        m == SkipWhile(q, l, IsSpace)
    IN  /\ j > i /\ k > j /\ l > k /\ m > l
        /\ \E suffix \in {"street", "st", "avenue", "ave", "road", "rd", "drive", "dr", "lane",
                          "ln", "boulevard", "blvd", "way", "court", "ct"} :
               OccursAt(q, m, suffix)

\* fault: the keyword sets are not looked at
FallbackDefault(question) == <<"policy_explanatory", "waste_collection">>

\* <<intent_type, category>>
classify_question_intent_fallback(question) ==
    LET query_lower == Lower(question)
        live_keywords == {"when is my", "when does my", "what day is my", "my collection day",
                          "my pickup day", "check my collection", "find my collection"}
        has_address == \E i \in 1..Len(query_lower) : StreetPatternAt(query_lower, i)
        has_collection_keyword ==
            \/ AnyIn(query_lower, live_keywords)
            \/ (StrContains(query_lower, "collection") /\ StrContains(query_lower, "day"))
    IN  IF has_address /\ has_collection_keyword THEN <<"live_status_lookup", "waste_collection">>
        ELSE IF AnyIn(query_lower, {"parking permit", "parking", "permit", "monthly parking", "residential parking"})
            THEN <<"policy_explanatory", "parking">>
        ELSE IF AnyIn(query_lower, {"property tax", "tax payment", "tax due", "tax bill", "pay taxes"})
            THEN <<"policy_explanatory", "property_tax">>
        ELSE IF AnyIn(query_lower, {"blue box", "grey box", "green bin", "what goes", "recycling",
                                    "garbage", "waste", "cart", "collection rules"})
            THEN <<"policy_explanatory", "waste_collection">>
        ELSE IF AnyIn(query_lower, {"hazardous waste", "karc", "dispose", "batteries", "drop off"})
            THEN <<"policy_explanatory", "hazardous_waste">>
        ELSE IF AnyIn(query_lower, {"fire permit", "open air fire", "burn", "fire pit"})
            THEN <<"policy_explanatory", "fire_permits">>
        ELSE IF AnyIn(query_lower, {"noise", "quiet hours", "bylaw", "nuisance", "complaint"})
            THEN <<"policy_explanatory", "noise">>
        ELSE <<"policy_explanatory", "waste_collection">>

\* classify_question_intent_ai: the pair returned for a response that has a "|"
\* and splits in exactly two parts
ParsedPair(intent, cat) ==
    IF intent = "out_of_scope" \/ cat = "none" THEN <<"out_of_scope", "none">> ELSE <<intent, cat>>

\* fault: the except branch returns the default pair
DefaultClassification(question) == <<"policy_explanatory", "waste_collection">>

\* classify_question_intent_ai: what the except branch returns
OnClassifyError(question) == classify_question_intent_fallback(question)

\* <<intent_type, category>> when the classification call answers resp
classify_question_intent_ai(question, resp) ==
    IF ~resp.ok THEN OnClassifyError(question)
    ELSE LET result == Lower(Strip(resp.content))
             parts == SplitOn(result, "|")
         IN  IF StrContains(result, "|")
             THEN IF Len(parts) # 2
                  THEN OnClassifyError(question)    \* the unpacking raises ValueError
                  ELSE ParsedPair(Strip(parts[1]), Strip(parts[2]))
             ELSE classify_question_intent_fallback(question)

classify_question_intent(question, resp) == classify_question_intent_ai(question, resp)

is_greeting_or_simple_query(question) ==
    LET query_lower == Strip(Lower(question))
        exact_greetings == {"hi", "hello", "hey", "good morning", "good afternoon", "good evening",
                            "how are you", "what can you do", "what do you do", "what is this",
                            "who are you", "introduce yourself"}
        simple_patterns == {"thanks", "thank you", "ok", "okay", "got it", "understood",
                            "that's helpful", "that helps"}
        greets == \E g \in exact_greetings :
                      \/ query_lower = g
                      \/ StartsWith(query_lower, g \o " ")
                      \/ StartsWith(query_lower, g \o "?")
                      \/ StartsWith(query_lower, g \o "!")
    IN  IF greets
        THEN ~AnyIn(query_lower, {"with", "about", "for", "when", "where", "how", "what", "why",
                                  "can i", "do i", "should i"})
        ELSE /\ Len(SplitWords(query_lower)) <= 4
             /\ \E g \in simple_patterns : StartsWith(query_lower, g)

\* translate_text: what the except branch returns
OnTranslateError(text) == text

\* translate_text(text, target_language, source_language) when the call answers resp
translate_text(text, target_language, source_language, resp) ==
    IF target_language = "en" /\ source_language = "en" THEN text
    ELSE IF resp.ok THEN Strip(resp.content)
    ELSE OnTranslateError(text)

\* translate_text makes a call
TranslateCalls(target_language, source_language) == ~(target_language = "en" /\ source_language = "en")

\* detect_language: the quick keyword test decides "fr".  The twentieth
\* indicator of the source, "o" followed by u-grave, is left out: the texts of
\* the model are ASCII, which never contain it
FrenchByKeywords(text) ==
    LET text_lower == Lower(text)
        french_indicators == {"le", "la", "les", "de", "du", "des", "et", "est", "pour", "avec",
                              "dans", "sur", "par", "que", "qui", "quoi", "comment", "quand", "pourquoi"}
    IN  Cardinality({w \in french_indicators : StrContains(text_lower, w)}) >= 2

\* detect_language: what the except branch returns
OnDetectError == "en"

\* detect_language(text) when the detection call answers resp
detect_language(text, resp) ==
    IF FrenchByKeywords(text) THEN "fr"
    ELSE IF ~resp.ok THEN OnDetectError
    ELSE IF Lower(Strip(resp.content)) \in {"en", "fr"} THEN Lower(Strip(resp.content))
    ELSE "en"

check_context_relevance(question, context_sample, expected_category) ==
    LET question_lower == Lower(question)
        context_lower == Lower(context_sample)
        words == SplitWords(question_lower)
        key_terms == SelectSeq(words, LAMBDA w :
                         /\ Len(w) > 3
                         /\ w \notin {"what", "when", "where", "how", "why", "can", "the", "and",
                                      "for", "with", "about"})
        matches == Cardinality({i \in 1..Len(key_terms) : StrContains(context_lower, key_terms[i])})
    IN  IF key_terms # <<>> /\ matches = 0 /\ Len(key_terms) > 2 THEN FALSE
        ELSE IF expected_category = "none" \/ StrContains(expected_category, "out_of_scope") THEN FALSE
        ELSE TRUE

\* validate_answer_relevance: the verdict for a response that was received
\* (confidence in hundredths)
ParsedVerdict(result) ==
    IF StartsWith(result, "YES")
    THEN [is_relevant |-> TRUE, confidence |-> 90, reason |-> "Answer is relevant"]
    ELSE [is_relevant |-> FALSE, confidence |-> 80,
          reason |-> IF StrContains(result, "|")
                     THEN Strip(From(result, Find(result, "|", 1) + 1))
                     ELSE "Answer doesn't match question"]

\* validate_answer_relevance: what the except branch returns
OnValidateError ==
    [is_relevant |-> TRUE, confidence |-> 50, reason |-> "Validation error, assuming relevant"]

\* validate_answer_relevance(question, answer, expected_category) when the
\* validation call answers resp
validate_answer_relevance(question, answer, expected_category, resp) ==
    IF ~resp.ok THEN OnValidateError ELSE ParsedVerdict(Upper(Strip(resp.content)))

RECURSIVE RemoveAll(_, _, _)
\* re.sub(r"(a1|a2|...)", "", s) from position `from`: at the leftmost position
\* where an alternative occurs, the first alternative that occurs there is removed
RemoveAll(s, alts, from) ==
    LET hits == {i \in from..Len(s) : \E n \in 1..Len(alts) : OccursAt(s, i, alts[n])}
        i == Min(hits)
        n == Min({n \in 1..Len(alts) : OccursAt(s, i, alts[n])})
    IN  IF hits = {} THEN From(s, from)
        ELSE SubSeq(s, from, i - 1) \o RemoveAll(s, alts, i + Len(alts[n]))

StreetSuffixes ==
    <<"street", "st", "avenue", "ave", "road", "rd", "drive", "dr", "lane", "ln",
      "boulevard", "blvd", "way", "court", "ct">>

IsWordOrSpace(c) == IsWordChar(c) \/ IsSpace(c)

\* The last position of the match of
\* r"(\d+\s+[\w\s]+(?:street|st|...))" that starts at position i, 0 when there is
\* none: the greedy [\w\s]+ is cut back to the last place where a suffix occurs,
\* and there the first suffix of the alternation that occurs is taken
StreetMatchEnd(q, i) ==
    LET j == SkipWhile(q, i, IsDigit)
        k == SkipWhile(q, j, IsSpace)
        e == SkipWhile(q, k, IsWordOrSpace)
        \* [\w\s]+ takes at least one character: the one at k, or, when \s+ can
        \* give a space back, the space before k
        lo == IF k - j >= 2 THEN k ELSE k + 1
        places == {p \in lo..(e - 1) : \E n \in 1..Len(StreetSuffixes) : OccursAt(q, p, StreetSuffixes[n])}
        p == Max(places)
        n == Min({n \in 1..Len(StreetSuffixes) : OccursAt(q, p, StreetSuffixes[n])})
    IN  IF j > i /\ k > j /\ places # {} THEN p + Len(StreetSuffixes[n]) - 1 ELSE 0

\* The last position of the match of r"(\d+\s+division(?:\s+st(?:reet)?)?)" at i
DivisionMatchEnd(q, i) ==
    LET j == SkipWhile(q, i, IsDigit)
        k == SkipWhile(q, j, IsSpace)
        e == k + Len("division")
        st == SkipWhile(q, e, IsSpace)
    IN  IF j > i /\ k > j /\ OccursAt(q, k, "division")
        THEN IF st > e /\ OccursAt(q, st, "street") THEN st + Len("street") - 1
             ELSE IF st > e /\ OccursAt(q, st, "st") THEN st + Len("st") - 1
             ELSE e - 1
        ELSE 0

\* The last position of the match of r"(\d+\s+[\w]+(?:\s+division)?)" at i
NumberWordMatchEnd(q, i) ==
    LET j == SkipWhile(q, i, IsDigit)
        k == SkipWhile(q, j, IsSpace)
        l == SkipWhile(q, k, IsWordChar)
        d == SkipWhile(q, l, IsSpace)
    IN  IF j > i /\ k > j /\ l > k
        THEN IF d > l /\ OccursAt(q, d, "division") THEN d + Len("division") - 1 ELSE l - 1
        ELSE 0

\* re.search(pattern, q).group(1) for a pattern given by its MatchEnd, "" when
\* there is no match: the match at the leftmost position where one starts
SearchGroup(q, MatchEnd(_, _)) ==
    LET startsAt == {i \in 1..Len(q) : MatchEnd(q, i) > 0}
    IN  IF startsAt = {} THEN "" ELSE SubSeq(q, Min(startsAt), MatchEnd(q, Min(startsAt)))

\* re.sub(r'[.,;!?]+$', '', address.strip())
TrimAddress(address) ==
    LET t == Strip(address)
        keep == {i \in 1..Len(t) : Char(t, i) \notin {".", ",", ";", "!", "?"}}
    IN  IF keep = {} THEN "" ELSE SubSeq(t, 1, Max(keep))

\* extract_address_clean(query), "" for None
extract_address_clean(question) ==
    LET query_clean == Strip(RemoveAll(Lower(question),
                                       <<"check for", "look up", "find", "my address is",
                                         "address is", "address:">>, 1))
        a1 == TrimAddress(SearchGroup(query_clean, StreetMatchEnd))
        a2 == TrimAddress(SearchGroup(query_clean, DivisionMatchEnd))
        a3 == TrimAddress(SearchGroup(query_clean, NumberWordMatchEnd))
        words == SplitWords(query_clean)
        address_parts == SelectSeq(Prefix(words, 4), LAMBDA w :
                             w \notin {"check", "for", "this", "my", "address", "is", "the", "a", "an"})
    IN  IF Len(a1) > 5 THEN a1
        ELSE IF Len(a2) > 5 THEN a2
        ELSE IF Len(a3) > 5 THEN a3
        ELSE IF /\ \E i \in 1..Len(query_clean) : IsDigit(Char(query_clean, i))
                /\ Len(words) >= 2
                /\ Len(address_parts) >= 2
            THEN Join(address_parts, " ")
        ELSE ""

-----------------------------------------------------------------------------
-----------------------------------------------------------------------------
(* Fixed texts of the two endpoints *)

GREETING_EN == "Hello! I'm the City of Kingston 311 assistant. How can I help you today?"

greeting_responses ==
    {"Hello! I'm the City of Kingston 311 assistant. I can help answer questions about city services, policies, and information. What can I help you with today?",
     "Hi! How can I help you with City of Kingston services today?",
     "Hey! I'm here to help with questions about Kingston city services. What would you like to know?"}

NO_SOURCES_EN == "I couldn't find an official City of Kingston page for that. Please try rephrasing, or contact 311 at 613-546-0000 for assistance."

OUT_OF_SCOPE_EN == "I'm the City of Kingston 311 assistant. I couldn't find that in our policies knowledge base. You can try asking about City services/policies, or contact 311 at 613-546-0000 for assistance."

calendar_url == "https://www.cityofkingston.ca/garbage-and-recycling/collection-calendar/"

\* the live-lookup answer of /query/stream
LiveAnswerStream(address) ==
    IF address # ""
    THEN "I've noted your address: " \o address \o ". To find your specific garbage collection day, please visit the City's official waste collection calendar at " \o calendar_url \o " and enter your address there. The calendar will show you your exact collection schedule."
    ELSE "Garbage collection days depend on your address. Please provide your address (e.g., '576 Division Street') and I'll direct you to the City's official collection calendar where you can check your specific schedule: " \o calendar_url

\* the live-lookup answer of /query
LiveAnswerQuery(address) ==
    IF address # ""
    THEN LiveAnswerStream(address)
    ELSE "Garbage collection days depend on your address. Please provide your address (e.g., '576 Division Street') so I can direct you to check your specific collection schedule."

NO_CONTEXT_EN == "I couldn't find official information about that. Please try rephrasing, or contact 311 at 613-546-0000 for assistance."

NOT_CONFIRMED_EN == "I couldn't confirm that on official City of Kingston sources. Please contact 311 at 613-546-0000 for assistance."

CORRECTION_EN == "\n\nI don't have specific information about that in our knowledge base. Please contact 311 at 613-546-0000 for assistance with this question."

NO_CONTEXT_QUERY == "I couldn't find specific information about that. Please try rephrasing your question or contact 311 at 613-546-0000."

\* the decimal numeral of a source number
Numeral(i) == ToString(i)

\* the links-only message of the dynamic route (lines_en joined)
LinksMessage(srcs) ==
    LET line(i) == Numeral(i) \o ". " \o (IF srcs[i].title = "" THEN "Source " \o Numeral(i) ELSE srcs[i].title)
                   \o " [" \o Numeral(i) \o "]"
        listed == SelectSeq([i \in 1..Len(srcs) |-> i], LAMBDA i : srcs[i].url # "")
    IN  Strip(Join(<<"For the latest updates, please check these official City of Kingston pages:">>
                   \o [n \in 1..Len(listed) |-> line(listed[n])]
                   \o <<"If you still can't find what you need there, contact 311 at 613-546-0000.">>, "\n"))

\* the display list built from the sources of the dynamic route
DynamicResults(srcs) ==
    LET kept == SelectSeq(srcs, LAMBDA src : src.url # "")
    IN  [i \in 1..Len(kept) |->
            [score |-> 100, content |-> kept[i].title, category |-> "dynamic_search",
             topic |-> "official_search", source_url |-> kept[i].url]]

\* re.sub(r"\s+", " ", text).strip()
OneSpaced(text) == Strip(SquashRuns(text, IsSpace, 1, " "))

\* the two re.sub calls that remove the cheque mailing instructions from an answer
WithoutMailing(answer) ==
    SubSpan(SubSpan(answer, <<"make your cheque payable to city of kingston and mail it to",
                              "kingston, on k7l 4x1">>, "", 1),
            <<"make your cheque payable", "po box 640", "kingston, on k7l 4x1">>, "", 1)

-----------------------------------------------------------------------------
(* The requests and the answers of the external services *)

\* the endpoints of the API
Endpoints == {"stream", "query"}

\* QueryRequest.query
Questions ==
    {"hello", "road closure today", "parking permit renewal cost",
     "my collection day at 576 division street", "quel est le tarif du parking",
     "hi road closure today"}

\* QueryRequest.language
Languages == {"en", "fr", "auto"}

\* QueryRequest.top_k (the default)
RequestTopKs == {5}

\* an external call that raised, or that answered without text
NoResponse == [ok |-> FALSE, content |-> ""]

Answered(text) == [ok |-> TRUE, content |-> text]

\* str(e) of the exception an external call raises
ExceptionText(fn) == "Error code: 500 - " \o fn \o " request failed"

\* answers of the classification call
ClassifierResponses ==
    {NoResponse, Answered("policy_explanatory|parking"), Answered("Policy_Explanatory | Waste_Collection "),
     Answered("out_of_scope|parking"), Answered("live_status_lookup|waste_collection"),
     Answered("I am not sure")}

\* answers of the language detection call
DetectResponses == {NoResponse, Answered("fr"), Answered("English")}

\* answers of the translation of a question into English
QuestionTranslations == {NoResponse, Answered(" parking permit renewal cost ")}

\* answers of the translation of a text into French
TextTranslations(text) == {NoResponse, Answered("[fr] " \o text), Answered("")}

\* answers of the answer validation call
ValidatorResponses == {NoResponse, Answered("yes"), Answered("NO|The answer is about garbage"), Answered("Maybe")}

Filler ==
    "Residents can find more details on the official pages of the municipality during business hours. "

ParkingContent == "Section Menu Parking permits are issued by the parking office for one year. " \o Filler \o Filler

WasteContent == "Garbage is collected weekly at the curb. Contact Us " \o Filler \o Filler

BoilerplateContent == "Section Menu Contact Us City of Kingston City Hall"

\* a search match (score in hundredths)
Match(score, text, cat, url) ==
    [score |-> score, content |-> text, category |-> cat, topic |-> "general", source_url |-> url]

\* results.matches of the vector search of a request
SearchResults ==
    {<<>>,
     <<Match(<<91>>, ParkingContent, "parking", "https://www.cityofkingston.ca/parking/permits/")>>,
     <<Match(<<80>>, BoilerplateContent, "parking", "https://www.cityofkingston.ca/parking/")>>,
     <<Match(<<88>>, WasteContent, "Waste Collection", "https://www.cityofkingston.ca/garbage/"),
       Match(<<>>, ParkingContent, "parking", "https://www.cityofkingston.ca/parking/permits/")>>}

\* a chunk of a completion stream: content "" is a chunk without content, bad
\* a chunk whose choices cannot be read
Chunk(content) == [content |-> content, bad |-> FALSE]

BadChunk == [content |-> "", bad |-> TRUE]

\* a completion stream: ok = FALSE when create() raises, raises when the
\* iteration raises after the chunks
Completion(chunks, raises) == [ok |-> TRUE, chunks |-> chunks, raises |-> raises]

NoCompletion == [ok |-> FALSE, chunks |-> <<>>, raises |-> FALSE]

Completions ==
    {NoCompletion,
     Completion(<<>>, FALSE),
     Completion(<<Chunk("Permits are issued "), Chunk(""), Chunk("for  one year [1].")>>, FALSE),
     Completion(<<Chunk("Permits "), BadChunk, Chunk("cost 30 dollars.")>>, FALSE),
     Completion(<<Chunk("Permits ")>>, TRUE),
     Completion(<<>>, TRUE),
     Completion(<<Chunk(" "), Chunk("\n")>>, FALSE)}

\* result.content of llm_chain.invoke
Generations ==
    {NoResponse, Answered(""), Answered("Permits are issued for one year."),
     Answered("It seems that the context is missing."),
     Answered("Submit the application form. Garbage is collected weekly.")}

PageText == "Road closures this week: Princess Street is closed between Division and Barrie. " \o Filler \o Filler \o Filler

SitemapLocs ==
    <<[loc |-> "https://www.cityofkingston.ca/news/posts/weekly-traffic-report-jan-8/", lastmod |-> "2024-01-08"],
      [loc |-> " https://www.cityofkingston.ca/news/posts/weekly-traffic-report-jan-15/ ", lastmod |-> "2024-01-15"],
      [loc |-> "https://example.com/news/posts/traffic-report", lastmod |-> "2024-02-01"]>>

\* more url entries of the sitemap: the curated transit page, a post that
\* matches both transit patterns, an alert, and an alert on a foreign host
TransitLocs ==
    <<[loc |-> "https://www.cityofkingston.ca/news-and-notices/transit-news/", lastmod |-> "2024-01-01"],
      [loc |-> "https://www.cityofkingston.ca/news-and-notices/transit-news/news/posts/kingston-transit-service-alert-route-2/",
       lastmod |-> "2024-03-01"],
      [loc |-> "https://www.cityofkingston.ca/news/posts/kingston-transit-service-alert-jan/", lastmod |-> ""],
      [loc |-> "https://alerts.example.com/news/posts/kingston-transit-service-alert-feb/", lastmod |-> "2024-04-01"]>>

\* answers of the sitemap GET
SitemapAnswers == {[ok |-> FALSE, entries |-> <<>>], [ok |-> TRUE, entries |-> <<>>], [ok |-> TRUE, entries |-> SitemapLocs]}

\* the pages a request can fetch
PageUrls ==
    UNION {{CURATED_DYNAMIC_SOURCES(b)[i].url : i \in 1..Len(CURATED_DYNAMIC_SOURCES(b))} :
              b \in {"road_closures", "snow_removal", "transit", "transit_lost_found"}}
    \cup {Strip(SitemapLocs[i].loc) : i \in 1..Len(SitemapLocs)}
    \cup {TransitLocs[i].loc : i \in 1..Len(TransitLocs)}

Page(title, text) == [ok |-> TRUE, title |-> title, text |-> text]

\* a page whose GET raises
NoPage == [ok |-> FALSE, title |-> "", text |-> ""]

\* answers of the page GETs, by URL
Webs ==
    {[u \in PageUrls |-> Page(" Weekly Traffic Report ", PageText)],
     [u \in PageUrls |-> Page("Road closures", "Please enable JavaScript to view this page.")],
     [u \in PageUrls |-> IF u = CURATED_DYNAMIC_SOURCES("road_closures")[1].url
                         THEN NoPage ELSE Page("", PageText)],
     [u \in PageUrls |-> NoPage]}

\* time.time() of the request
Clock == 5000

\* _SITEMAP_CACHE at module load
EmptyCache == [ts |-> 0, items |-> <<>>]

\* _SITEMAP_CACHE as an earlier request left it
Caches ==
    {EmptyCache,
     [ts |-> Clock - 60, items |-> SitemapEntries([ok |-> TRUE, entries |-> SitemapLocs])]}

-----------------------------------------------------------------------------
(* Events of /query/stream and the response of /query *)

\* one server-sent event; a key the event does not carry is "", FALSE or <<>>
Event(type, content, done, results) ==
    [type |-> type, content |-> content, done |-> done, results |-> results]

TextEvent(content) == Event("text", content, FALSE, <<>>)

\* fault: the final text without its done flag
UnflaggedTextEvent(content) == Event("text", content, FALSE, <<>>)

FinalTextEvent(content) == Event("text", content, TRUE, <<>>)

\* fault: the display list sent under the type of a text event
ResultsAsText(results) == Event("text", "", FALSE, results)

ResultsEvent(results) == Event("results", "", FALSE, results)

DoneEvent == Event("done", "", FALSE, <<>>)

ErrorEvent(error_msg) == Event("error", error_msg, FALSE, <<>>)

\* no response sent yet
NoReply == [status |-> 0, answer |-> "", results |-> <<>>, intent |-> "", requires_address |-> FALSE,
            workflow_state |-> "", detail |-> ""]

\* QueryResponse (workflow_state "" is None)
QueryResponse(answer, results, intent, requires_address, workflow_state) ==
    [status |-> 200, answer |-> answer, results |-> results, intent |-> intent,
     requires_address |-> requires_address, workflow_state |-> workflow_state, detail |-> ""]

\* HTTPException(status_code=500, detail=f"Error querying: {str(e)}")
HTTPException(e) ==
    [NoReply EXCEPT !.status = 500, !.detail = "Error querying: " \o e]

\* one external call in the log of a request
Call(fn, arg) == [fn |-> fn, arg |-> arg]

\* the chunks of a completion stream that the loop of the handler reads: with
\* the try around the body a bad chunk is skipped, without it the loop raises there
ReadChunks(completion, guarded) ==
    LET chunks == completion.chunks
        bad == {i \in 1..Len(chunks) : chunks[i].bad}
        stop == IF guarded \/ bad = {} THEN Len(chunks) + 1 ELSE Min(bad)
        read == SelectSeq(SubSeq(chunks, 1, stop - 1), LAMBDA c : ~c.bad /\ c.content # "")
    IN  [contents |-> [i \in 1..Len(read) |-> read[i].content],
         raised |-> stop <= Len(chunks) \/ completion.raises]

\* the text events for a translated answer: one per word, a space after all but the last
WordEvents(answer) ==
    LET words == SplitWords(answer)
    IN  [i \in 1..Len(words) |-> TextEvent(words[i] \o (IF i < Len(words) THEN " " ELSE ""))]

-----------------------------------------------------------------------------
(* /query/stream: generate() *)

\* validation_result before the validation (confidence 0 is no verdict)
NoVerdict == [is_relevant |-> TRUE, confidence |-> 0, reason |-> ""]

\* the fields every request starts with
Fresh ==
    /\ user_language = "" /\ dynamic = FALSE /\ intent_type = "" /\ category = ""
    /\ user_address = "" /\ formatted_results = <<>> /\ context_parts = <<>>
    /\ sources = <<>> /\ dyn_context = <<>> /\ full_answer = ""
    /\ events = <<>> /\ response = NoReply /\ calls = <<>> /\ faults = <<>>
    /\ validation_result = NoVerdict

\* the translations a text of the handler can get ("translate ... if user_language == 'fr'")
TranslationsFor(text) == IF user_language = "fr" THEN TextTranslations(text) ELSE {NoResponse}

Localized(text, t) == IF user_language = "fr" THEN translate_text(text, user_language, "en", t) ELSE text

LocalizeCalls(text) == IF user_language = "fr" THEN <<Call("translate", text)>> ELSE <<>>

LocalizeFaults(t) == IF user_language = "fr" /\ ~t.ok THEN <<"translate">> ELSE <<>>

\* fault: the question is embedded before the final text is given
FinalTextAfterEmbedding(text_en, extra_calls, extra_faults) ==
    \E t \in TranslationsFor(text_en) :
        /\ events' = Append(events, FinalTextEvent(Localized(text_en, t)))
        /\ calls' = calls \o <<Call("embedding", query)>> \o extra_calls \o LocalizeCalls(text_en)
        /\ faults' = faults \o extra_faults \o LocalizeFaults(t)
        /\ pc' = "end"

\* the request ends with one final text
FinalText(text_en, extra_calls, extra_faults) ==
    \E t \in TranslationsFor(text_en) :
        /\ events' = Append(events, FinalTextEvent(Localized(text_en, t)))
        /\ calls' = calls \o extra_calls \o LocalizeCalls(text_en)
        /\ faults' = faults \o extra_faults \o LocalizeFaults(t)
        /\ pc' = "end"

\* fault: the stream ends after the fragments, without an error event
Truncate(fn, earlier, extra_calls, extra_faults) ==
    /\ events' = events \o earlier
    /\ calls' = calls \o extra_calls
    /\ faults' = faults \o extra_faults \o <<fn>>
    /\ pc' = "end"

\* the outer except of generate(): one error event with str(e)
Raise(fn, earlier, extra_calls, extra_faults) ==
    /\ events' = events \o earlier \o <<ErrorEvent(ExceptionText(fn))>>
    /\ calls' = calls \o extra_calls
    /\ faults' = faults \o extra_faults \o <<fn>>
    /\ pc' = "end"

\* language detection and translation of the question
StreamLanguage ==
    /\ endpoint = "stream" /\ pc = "start"
    /\ \E asked \in {language = "auto" /\ ~FrenchByKeywords(query)} :
       \E d \in (IF asked THEN DetectResponses ELSE {NoResponse}) :
       \E detected_lang \in {IF language = "auto" THEN detect_language(query, d) ELSE language} :
       \E t \in (IF detected_lang = "fr" THEN QuestionTranslations ELSE {NoResponse}) :
                /\ user_language' = detected_lang
                /\ query' = IF detected_lang = "fr" THEN translate_text(query, "en", "fr", t) ELSE query
                /\ calls' = calls \o (IF asked THEN <<Call("detect", query)>> ELSE <<>>)
                                  \o (IF detected_lang = "fr" THEN <<Call("translate", query)>> ELSE <<>>)
                /\ faults' = faults \o (IF asked /\ ~d.ok THEN <<"detect">> ELSE <<>>)
                                    \o (IF detected_lang = "fr" /\ ~t.ok THEN <<"translate">> ELSE <<>>)
    /\ pc' = "classify"
    /\ UNCHANGED <<frames, running, endpoint, language, top_k, dynamic, intent_type, category, user_address,
                   formatted_results, context_parts, sources, dyn_context, full_answer, events,
                   response, cache, now, validation_result, fnIn, fnOut>>

\* the router flag, the classification and the address
StreamClassify ==
    /\ endpoint = "stream" /\ pc = "classify"
    /\ \E c \in ClassifierResponses :
       \E pair \in {classify_question_intent(query, c)} :
             /\ intent_type' = pair[1]
             /\ category' = pair[2]
             /\ faults' = faults \o (IF c.ok THEN <<>> ELSE <<"classify">>)
    /\ dynamic' = is_dynamic_query(query)
    /\ user_address' = extract_address_clean(query)
    /\ calls' = Append(calls, Call("classify", query))
    /\ pc' = "route"
    /\ UNCHANGED <<frames, running, endpoint, language, top_k, query, user_language, formatted_results,
                   context_parts, sources, dyn_context, full_answer, events, response, cache,
                   now, validation_result, fnIn, fnOut>>

StreamGreeting ==
    /\ endpoint = "stream" /\ pc = "route"
    /\ is_greeting_or_simple_query(query)
    /\ FinalText(GREETING_EN, <<>>, <<>>)
    /\ UNCHANGED <<frames, running, endpoint, language, top_k, query, user_language, dynamic, intent_type, category,
                   user_address, formatted_results, context_parts, sources, dyn_context,
                   full_answer, response, cache, now, validation_result, fnIn, fnOut>>

\* the calls build_dynamic_context makes and those of them that fail
ContextCalls(ctx) ==
    <<Call("build_dynamic_context", query)>>
    \o (IF ctx.fetched THEN <<Call("sitemap", "")>> ELSE <<>>)
    \o [i \in 1..Len(ctx.tried) |-> Call("page", ctx.tried[i])]

ContextFaults(ctx, net, web) ==
    (IF ctx.fetched /\ ~net.ok THEN <<"sitemap">> ELSE <<>>)
    \o [i \in 1..Len(SelectSeq(ctx.tried, LAMBDA u : ~web[u].ok)) |-> "page"]

\* the answers of the network that build_dynamic_context can see
SitemapAnswersNow == IF CacheFresh(cache, now) THEN {[ok |-> FALSE, entries |-> <<>>]} ELSE SitemapAnswers

\* the dynamic route: the official sources of the question
StreamDynamicContext ==
    /\ endpoint = "stream" /\ pc = "route"
    /\ ~is_greeting_or_simple_query(query)
    /\ dynamic
    /\ \E net \in SitemapAnswersNow, web \in Webs :
       \E ctx \in {build_dynamic_context(query, 6, cache, now, net, web)} :
             /\ sources' = ctx.sources
             /\ dyn_context' = ctx.blocks
             /\ cache' = ctx.cache
             /\ IF ctx.sources = <<>>
                THEN FinalText(NO_SOURCES_EN, ContextCalls(ctx), ContextFaults(ctx, net, web))
                ELSE /\ calls' = calls \o ContextCalls(ctx)
                     /\ faults' = faults \o ContextFaults(ctx, net, web)
                     /\ pc' = "dynamic_answer"
                     /\ UNCHANGED events
    /\ UNCHANGED <<frames, running, endpoint, language, top_k, query, user_language, dynamic, intent_type, category,
                   user_address, formatted_results, context_parts, full_answer, response, now,
                   validation_result, fnIn, fnOut>>

\* the answer generated from official sources srcs, streamed to the client and
\* closed with the results and done events; guarded: the loop body is in a try
AnswerFromSources(srcs, guarded, extra_calls, extra_faults) ==
    \E completion \in Completions :
    \E read \in {ReadChunks(completion, guarded)} :
    \E collected \in {Join(read.contents, "")} :
    \E closing \in {<<ResultsEvent(DynamicResults(srcs)), DoneEvent>>} :
        LET texts == [i \in 1..Len(read.contents) |-> TextEvent(read.contents[i])]
            asked == extra_calls \o <<Call("generate", query)>>
        IN  IF ~completion.ok
            THEN /\ Raise("generate", <<>>, asked, extra_faults)
                 /\ UNCHANGED <<full_answer, formatted_results>>
            ELSE IF user_language = "fr"
            THEN IF read.raised
                 THEN /\ Raise("stream", <<>>, asked, extra_faults)
                      /\ full_answer' = collected
                      /\ UNCHANGED formatted_results
                 ELSE \E spaced \in {OneSpaced(collected)} :
                      \E t \in TextTranslations(spaced) :
                        /\ full_answer' = translate_text(spaced, "fr", "en", t)
                        /\ events' = events \o WordEvents(full_answer') \o closing
                        /\ formatted_results' = DynamicResults(srcs)
                        /\ calls' = calls \o asked \o <<Call("translate", spaced)>>
                        /\ faults' = faults \o extra_faults \o (IF t.ok THEN <<>> ELSE <<"translate">>)
                        /\ pc' = "end"
            ELSE /\ full_answer' = ""
                 /\ IF read.raised
                    THEN /\ Raise("stream", texts, asked, extra_faults)
                         /\ UNCHANGED formatted_results
                    ELSE /\ events' = events \o texts \o closing
                         /\ formatted_results' = DynamicResults(srcs)
                         /\ calls' = calls \o asked
                         /\ faults' = faults \o extra_faults
                         /\ pc' = "end"

\* the dynamic route: the answer from the official sources, or their links
StreamDynamicAnswer ==
    /\ endpoint = "stream" /\ pc = "dynamic_answer"
    /\ IF dyn_context = <<>>
       THEN \E msg_en \in {LinksMessage(sources)} :
            \E t \in TranslationsFor(msg_en) :
              /\ events' = events \o <<TextEvent(Localized(msg_en, t)),
                                       ResultsEvent(DynamicResults(sources)), DoneEvent>>
              /\ formatted_results' = DynamicResults(sources)
              /\ calls' = calls \o LocalizeCalls(msg_en)
              /\ faults' = faults \o LocalizeFaults(t)
              /\ pc' = "end"
              /\ UNCHANGED full_answer
       ELSE AnswerFromSources(sources, TRUE, <<>>, <<>>)
    /\ UNCHANGED <<frames, running, endpoint, language, top_k, query, user_language, dynamic, intent_type, category,
                   user_address, context_parts, sources, dyn_context, response, cache, now,
                   validation_result, fnIn, fnOut>>

\* the question is out of scope
OutOfScope == intent_type = "out_of_scope" \/ category = "none"

StreamOutOfScope ==
    /\ endpoint = "stream" /\ pc = "route"
    /\ ~is_greeting_or_simple_query(query) /\ ~dynamic
    /\ OutOfScope
    /\ FinalText(OUT_OF_SCOPE_EN, <<>>, <<>>)
    /\ UNCHANGED <<frames, running, endpoint, language, top_k, query, user_language, dynamic, intent_type, category,
                   user_address, formatted_results, context_parts, sources, dyn_context,
                   full_answer, response, cache, now, validation_result, fnIn, fnOut>>

StreamLiveLookup ==
    /\ endpoint = "stream" /\ pc = "route"
    /\ ~is_greeting_or_simple_query(query) /\ ~dynamic /\ ~OutOfScope
    /\ intent_type = "live_status_lookup"
    /\ FinalText(LiveAnswerStream(user_address), <<>>, <<>>)
    /\ UNCHANGED <<frames, running, endpoint, language, top_k, query, user_language, dynamic, intent_type, category,
                   user_address, formatted_results, context_parts, sources, dyn_context,
                   full_answer, response, cache, now, validation_result, fnIn, fnOut>>

\* answers of the embedding call
EmbeddingAnswers == BOOLEAN

\* answers of the vector search: its matches, or <<FALSE>> when it raises
SearchAnswers == {<<TRUE, m>> : m \in {r \in SearchResults : Len(r) <= 3 * top_k}} \cup {<<FALSE, <<>> >>}

\* embedding, vector search and context assembly
StreamRetrieve ==
    /\ endpoint = "stream" /\ pc = "route"
    /\ ~is_greeting_or_simple_query(query) /\ ~dynamic /\ ~OutOfScope
    /\ intent_type # "live_status_lookup"
    /\ \E embedded \in EmbeddingAnswers, found \in SearchAnswers :
         IF ~embedded
         THEN /\ Raise("embedding", <<>>, <<Call("embedding", query)>>, <<>>)
              /\ UNCHANGED <<formatted_results, context_parts>>
         ELSE IF ~found[1]
         THEN /\ Raise("search", <<>>, <<Call("embedding", query), Call("search", query)>>, <<>>)
              /\ UNCHANGED <<formatted_results, context_parts>>
         ELSE \E selected \in {_select_context_and_results(found[2], category, top_k)} :
                  /\ formatted_results' = selected[1]
                  /\ context_parts' = selected[2]
                  /\ calls' = calls \o <<Call("embedding", query), Call("search", query)>>
                  /\ pc' = "retrieved"
                  /\ UNCHANGED <<faults, events>>
    /\ UNCHANGED <<frames, running, endpoint, language, top_k, query, user_language, dynamic, intent_type, category,
                   user_address, sources, dyn_context, full_answer, response, cache, now,
                   validation_result, fnIn, fnOut>>

\* the fallback to the official-site search of the static route: the answer
\* from the sources found, or the fixed text given
OfficialSiteFallback(text_en) ==
    \E net \in SitemapAnswersNow, web \in Webs :
    \E ctx \in {build_dynamic_context(query, 4, cache, now, net, web)} :
            /\ sources' = ctx.sources
            /\ dyn_context' = ctx.blocks
            /\ cache' = ctx.cache
            /\ IF ctx.blocks # <<>>
               THEN AnswerFromSources(ctx.sources, FALSE, ContextCalls(ctx), ContextFaults(ctx, net, web))
               ELSE /\ FinalText(text_en, ContextCalls(ctx), ContextFaults(ctx, net, web))
                    /\ UNCHANGED <<full_answer, formatted_results>>

\* no context was assembled
StreamNoContext ==
    /\ endpoint = "stream" /\ pc = "retrieved"
    /\ context_parts = <<>>
    /\ OfficialSiteFallback(NO_CONTEXT_EN)
    /\ UNCHANGED <<frames, running, endpoint, language, top_k, query, user_language, dynamic, intent_type, category,
                   user_address, context_parts, response, now, validation_result, fnIn, fnOut>>

\* "\n\n".join(context_parts[:2])
ContextSample == Join(SubSeq(context_parts, 1, IF Len(context_parts) < 2 THEN Len(context_parts) ELSE 2), "\n\n")

\* the quick check of the assembled context
StreamContextCheck ==
    /\ endpoint = "stream" /\ pc = "retrieved"
    /\ context_parts # <<>>
    /\ IF check_context_relevance(query, ContextSample, category)
       THEN /\ pc' = "generate"
            /\ UNCHANGED <<sources, dyn_context, cache, full_answer, formatted_results, events,
                           calls, faults>>
       ELSE OfficialSiteFallback(NOT_CONFIRMED_EN)
    /\ UNCHANGED <<frames, running, endpoint, language, top_k, query, user_language, dynamic, intent_type, category,
                   user_address, context_parts, response, now, validation_result, fnIn, fnOut>>

\* the answer of the static route, streamed as it is generated (or, in French,
\* collected, cleaned, translated and streamed word by word)
StreamAnswer ==
    /\ endpoint = "stream" /\ pc = "generate"
    /\ \E completion \in Completions :
       \E read \in {ReadChunks(completion, TRUE)} :
       \E collected \in {Join(read.contents, "")} :
       \E cleaned \in {WithoutMailing(OneSpaced(collected))} :
         LET texts == [i \in 1..Len(read.contents) |-> TextEvent(read.contents[i])]
             asked == <<Call("generate", query)>>
         IN  IF ~completion.ok
             THEN Raise("generate", <<>>, asked, <<>>) /\ UNCHANGED full_answer
             ELSE IF user_language = "fr"
             THEN IF read.raised
                  THEN Raise("stream", <<>>, asked, <<>>) /\ full_answer' = collected
                  ELSE \E t \in TextTranslations(cleaned) :
                         /\ full_answer' = translate_text(cleaned, "fr", "en", t)
                         /\ events' = events \o WordEvents(full_answer')
                         /\ calls' = calls \o asked \o <<Call("translate", cleaned)>>
                         /\ faults' = faults \o (IF t.ok THEN <<>> ELSE <<"translate">>)
                         /\ pc' = "validate"
             ELSE IF read.raised
                  THEN Raise("stream", texts, asked, <<>>) /\ full_answer' = collected
                  ELSE /\ full_answer' = cleaned
                       /\ events' = events \o texts
                       /\ calls' = calls \o asked
                       /\ pc' = "validate"
                       /\ UNCHANGED faults
    /\ UNCHANGED <<frames, running, endpoint, language, top_k, query, user_language, dynamic, intent_type, category,
                   user_address, formatted_results, context_parts, sources, dyn_context, response,
                   cache, now, validation_result, fnIn, fnOut>>

\* fault: the display list is not cleared
ResultsKept(verdict) == formatted_results

\* generate(): "if not validation_result['is_relevant']: ... formatted_results = []"
ResultsAfterValidation(verdict) == IF ~verdict.is_relevant THEN <<>> ELSE formatted_results

\* the validation of the answer, then the results and done events
StreamValidate ==
    /\ endpoint = "stream" /\ pc = "validate"
    /\ \E v \in ValidatorResponses :
       \E verdict \in {validate_answer_relevance(query, full_answer, category, v)} :
         LET asked == <<Call("validate", full_answer)>>
             failed == IF v.ok THEN <<>> ELSE <<"validate">>
         IN  /\ validation_result' = verdict
             /\ formatted_results' = ResultsAfterValidation(verdict)
             /\ IF ~verdict.is_relevant
                THEN \E t \in TranslationsFor(CORRECTION_EN) :
                       /\ events' = events \o <<TextEvent(Localized(CORRECTION_EN, t)),
                                                ResultsEvent(formatted_results'), DoneEvent>>
                       /\ calls' = calls \o asked \o LocalizeCalls(CORRECTION_EN)
                       /\ faults' = faults \o failed \o LocalizeFaults(t)
                ELSE /\ events' = events \o <<ResultsEvent(formatted_results'), DoneEvent>>
                     /\ calls' = calls \o asked
                     /\ faults' = faults \o failed
    /\ pc' = "end"
    /\ UNCHANGED <<frames, running, endpoint, language, top_k, query, user_language, dynamic, intent_type, category,
                   user_address, context_parts, sources, dyn_context, full_answer, response,
                   cache, now, fnIn, fnOut>>

-----
(* /query: query_pinecone() *)

\* the except of query_pinecone(): HTTP 500 with str(e) in the detail
QueryRaise(fn, extra_calls) ==
    /\ response' = HTTPException(ExceptionText(fn))
    /\ calls' = calls \o extra_calls
    /\ faults' = Append(faults, fn)
    /\ pc' = "end"

\* classification, address, workflow state, and the live-lookup answer
QueryClassify ==
    /\ endpoint = "query" /\ pc = "start"
    /\ \E c \in ClassifierResponses :
       \E pair \in {classify_question_intent(query, c)} :
       \E address \in {extract_address_clean(query)} :
         LET live == pair[1] = "live_status_lookup"
             workflow_state == IF ~live THEN "" ELSE IF address # "" THEN "ADDRESS_RECEIVED"
                                                                     ELSE "WAITING_FOR_ADDRESS"
             requires_address == live /\ address = ""
         IN  /\ intent_type' = pair[1]
             /\ category' = pair[2]
             /\ user_address' = address
             /\ faults' = faults \o (IF c.ok THEN <<>> ELSE <<"classify">>)
             /\ IF live
                THEN /\ response' = QueryResponse(LiveAnswerQuery(address), <<>>, pair[1],
                                                  requires_address, workflow_state)
                     /\ pc' = "end"
                ELSE /\ pc' = "route"
                     /\ UNCHANGED response
    /\ calls' = Append(calls, Call("classify", query))
    /\ UNCHANGED <<frames, running, endpoint, language, top_k, query, user_language, dynamic, formatted_results,
                   context_parts, sources, dyn_context, full_answer, events, cache, now,
                   validation_result, fnIn, fnOut>>

QueryGreeting ==
    /\ endpoint = "query" /\ pc = "route"
    /\ is_greeting_or_simple_query(query)
    /\ \E answer \in greeting_responses :
         response' = QueryResponse(answer, <<>>, intent_type, FALSE, "")
    /\ pc' = "end"
    /\ UNCHANGED <<frames, running, endpoint, language, top_k, query, user_language, dynamic, intent_type, category,
                   user_address, formatted_results, context_parts, sources, dyn_context,
                   full_answer, events, calls, faults, cache, now, validation_result, fnIn, fnOut>>

\* embedding, vector search and context assembly
QueryRetrieve ==
    /\ endpoint = "query" /\ pc = "route"
    /\ ~is_greeting_or_simple_query(query)
    /\ \E embedded \in EmbeddingAnswers, found \in SearchAnswers :
         IF ~embedded
         THEN /\ QueryRaise("embedding", <<Call("embedding", query)>>)
              /\ UNCHANGED <<formatted_results, context_parts>>
         ELSE IF ~found[1]
         THEN /\ QueryRaise("search", <<Call("embedding", query), Call("search", query)>>)
              /\ UNCHANGED <<formatted_results, context_parts>>
         ELSE \E selected \in {_select_context_and_results(found[2], category, top_k)} :
                  /\ formatted_results' = selected[1]
                  /\ context_parts' = selected[2]
                  /\ calls' = calls \o <<Call("embedding", query), Call("search", query)>>
                  /\ pc' = "retrieved"
                  /\ UNCHANGED <<faults, response>>
    /\ UNCHANGED <<frames, running, endpoint, language, top_k, query, user_language, dynamic, intent_type, category,
                   user_address, sources, dyn_context, full_answer, events, cache, now,
                   validation_result, fnIn, fnOut>>

\* the answer says that the context is missing
SaysContextMissing(answer) ==
    /\ StrContains(Lower(answer), "context")
    /\ AnyIn(Lower(answer), {"missing", "not provided", "seems that the context"})

\* the answer with the application link added when it mentions a form
WithFormLink(answer, results) ==
    LET with_url == SelectSeq(results, LAMBDA r : r.source_url # "")
        forms_mentioned == AnyIn(Lower(answer), {"form", "application", "apply", "submit"})
    IN  IF forms_mentioned /\ with_url # <<>> /\ ~StrContains(answer, "http")
        THEN answer \o "\n\nTo apply, visit: " \o with_url[1].source_url
        ELSE answer

unrelated_categories ==
    [parking |-> {"garbage", "waste", "collection calendar", "recycling"},
     property_tax |-> {"garbage", "waste", "parking", "collection"},
     waste_collection |-> {"parking permit", "property tax"},
     hazardous_waste |-> {"parking", "tax", "collection calendar"},
     fire_permits |-> {"garbage", "parking", "tax"},
     noise |-> {"garbage", "parking", "tax", "collection"}]

\* the answer mentions a topic unrelated to the category of the question
MentionsUnrelated(answer, cat) ==
    /\ cat \in DOMAIN unrelated_categories
    /\ cat # "waste_collection"
    /\ AnyIn(Lower(answer), unrelated_categories[cat])

\* the answer generated from the assembled context, or the fixed text without it
QueryAnswer ==
    /\ endpoint = "query" /\ pc = "retrieved"
    /\ IF context_parts = <<>>
       THEN /\ response' = QueryResponse(NO_CONTEXT_QUERY, formatted_results, intent_type, FALSE, "")
            /\ pc' = "end"
            /\ UNCHANGED <<calls, faults, full_answer>>
       ELSE \E first \in Generations :
            \E answer1 \in {WithoutMailing(first.content)} :
            \E again \in {SaysContextMissing(answer1)} :
            \E second \in (IF again THEN Generations ELSE {NoResponse}) :
            \E answer3 \in {WithFormLink(IF again THEN second.content ELSE answer1, formatted_results)} :
            \E strict \in {MentionsUnrelated(answer3, category)} :
            \E third \in (IF strict THEN Generations ELSE {NoResponse}) :
              LET asked == Call("generate", query)
                  answer4 == IF strict THEN third.content ELSE answer3
              IN  IF ~first.ok
                  THEN QueryRaise("generate", <<asked>>) /\ UNCHANGED full_answer
                  ELSE IF again /\ ~second.ok
                  THEN QueryRaise("generate", <<asked, asked>>) /\ UNCHANGED full_answer
                  ELSE IF strict /\ ~third.ok
                  THEN /\ QueryRaise("generate", <<asked>> \o (IF again THEN <<asked>> ELSE <<>>) \o <<asked>>)
                       /\ UNCHANGED full_answer
                  ELSE /\ full_answer' = answer4
                       /\ response' = QueryResponse(answer4, formatted_results, intent_type, FALSE, "")
                       /\ calls' = calls \o <<asked>> \o (IF again THEN <<asked>> ELSE <<>>)
                                         \o (IF strict THEN <<asked>> ELSE <<>>)
                       /\ pc' = "end"
                       /\ UNCHANGED faults
    /\ UNCHANGED <<frames, running, endpoint, language, top_k, query, user_language, dynamic, intent_type, category,
                   user_address, formatted_results, context_parts, sources, dyn_context, events,
                   cache, now, validation_result, fnIn, fnOut>>

-----------------------------------------------------------------------------
(* One request to either endpoint *)

Init ==
    /\ endpoint \in Endpoints
    /\ pc = "start"
    /\ query \in Questions
    /\ language \in Languages
    /\ top_k \in RequestTopKs
    /\ cache \in Caches
    /\ now = Clock
    /\ Fresh
    /\ fnIn = <<>> /\ fnOut = <<>>
    /\ frames = <<>> /\ running = 0

Next ==
    \/ StreamLanguage
    \/ StreamClassify
    \/ StreamGreeting
    \/ StreamDynamicContext
    \/ StreamDynamicAnswer
    \/ StreamOutOfScope
    \/ StreamLiveLookup
    \/ StreamRetrieve
    \/ StreamNoContext
    \/ StreamContextCheck
    \/ StreamAnswer
    \/ StreamValidate
    \/ QueryClassify
    \/ QueryGreeting
    \/ QueryRetrieve
    \/ QueryAnswer

Spec == Init /\ [][Next]_vars

-----------------------------------------------------------------------------
(* The pure helpers, each applied once to an input drawn from a bounded set *)

\* longest list of search matches given to _select_context_and_results
MaxMatches == 2

\* largest top_k given to _select_context_and_results
MaxTopK == 2

\* one call of a helper: the fields a helper does not take are "" or <<>>
Arg(fn, text, target, source, resp, matches, k) ==
    [fn |-> fn, text |-> text, target |-> target, source |-> source, resp |-> resp,
     matches |-> matches, k |-> k]

\* answers of the classification call: valid, out of the enumerations, with
\* one, two and three parts
ClassifierAnswers ==
    ClassifierResponses
    \cup {Answered("policy_explanatory|none"), Answered("policy_explanatory|parking|noise"),
          Answered("greeting|hello"), Answered("policy_explanatory|transit"), Answered("|"),
          Answered("")}

\* answers of the validation call
VerdictAnswers ==
    ValidatorResponses
    \cup {Answered("YES"), Answered(" Yes, it does."), Answered("no"), Answered("NO|"),
          Answered(""), Answered("Not sure|unclear")}

\* matches of a vector search: two of one URL, one without URL, one without
\* score, one of boilerplate only
MatchPool ==
    {Match(<<91>>, ParkingContent, "parking", "https://www.cityofkingston.ca/parking/permits/"),
     Match(<<85>>, WasteContent, "Parking", "https://www.cityofkingston.ca/parking/permits/"),
     Match(<<88>>, WasteContent, "waste_collection", "https://www.cityofkingston.ca/garbage/"),
     Match(<<70>>, ParkingContent, "parking", ""),
     Match(<<>>, ParkingContent, "waste collection", "https://www.cityofkingston.ca/garbage/"),
     Match(<<80>>, BoilerplateContent, "parking", "https://www.cityofkingston.ca/parking/")}

\* the lists of at most n matches
MatchLists(n) == UNION {[1..len -> MatchPool] : len \in 0..n}

\* a list longer than the candidate limit of top_k = 1: twenty matches of
\* boilerplate, then a usable one with the lowest score
LongMatches ==
    [i \in 1..21 |-> IF i <= 20
                     THEN Match(<<80>>, BoilerplateContent, "parking", "")
                     ELSE Match(<<10>>, ParkingContent, "parking", "https://www.cityofkingston.ca/parking/permits/")]

\* a page of more than 2000 characters after cleaning
LongContent ==
    ParkingContent \o Filler \o Filler \o Filler \o Filler \o Filler \o Filler \o Filler \o Filler \o Filler
    \o Filler \o Filler \o Filler \o Filler \o Filler \o Filler \o Filler \o Filler \o Filler \o Filler

\* the question of the second end-to-end scenario
CollectedAtMainStreet == "what day is garbage collected at 123 Main Street"

ClassifyInputs ==
    {Arg("classify", q, "", "", r, <<>>, 0) : q \in Questions, r \in ClassifierAnswers}
    \cup {Arg("classify", CollectedAtMainStreet, "", "", NoResponse, <<>>, 0)}

DetectInputs == {Arg("detect", q, "", "", r, <<>>, 0) : q \in Questions, r \in DetectResponses \cup {Answered(" EN ")}}

TranslateInputs ==
    {Arg("translate", q, l[1], l[2], r, <<>>, 0) :
        q \in {"hello", NO_CONTEXT_EN}, l \in {<<"en", "fr">>, <<"fr", "en">>, <<"en", "en">>, <<"fr", "auto">>},
        r \in {NoResponse, Answered(" bonjour "), Answered("")}}

ValidateInputs ==
    {Arg("validate", a, "", "", r, <<>>, 0) : a \in {"", "Permits are issued for one year."}, r \in VerdictAnswers}

SelectInputs ==
    {Arg("select", cat, "", "", NoResponse, m, k) :
        cat \in {"parking", "none"}, m \in MatchLists(MaxMatches), k \in 0..MaxTopK}
    \cup {Arg("select", "parking", "", "", NoResponse, LongMatches, 1)}
    \cup {Arg("select", "parking", "", "", NoResponse,
               <<Match(<<95>>, LongContent, "parking", "https://www.cityofkingston.ca/parking/permits/")>>, 1)}

\* largest max_results given to select_dynamic_sources and build_dynamic_context
MaxResults == 4

\* one call of a helper of the official-site search
SourcesArg(fn, question, bucket, net, web, max_results) ==
    [fn |-> fn, text |-> question, bucket |-> bucket, net |-> net, web |-> web, k |-> max_results]

\* answers of the sitemap GET: it fails, or it gives no, some or all url entries
SitemapAnswersAll ==
    SitemapAnswers \cup {[ok |-> TRUE, entries |-> SitemapLocs \o TransitLocs],
                         [ok |-> TRUE, entries |-> SubSeq(TransitLocs, 1, 1) \o SubSeq(TransitLocs, 3, 4)]}

\* _SITEMAP_CACHE: as loaded, as left by a fetch a minute ago, as left by a
\* fetch older than SITEMAP_TTL_SECONDS, and as left a minute ago by the fetch
\* of a sitemap without url entries
CachesAll ==
    Caches \cup {[ts |-> Clock - SITEMAP_TTL_SECONDS - 60,
                  items |-> SitemapEntries([ok |-> TRUE, entries |-> SubSeq(SitemapLocs, 1, 1)])],
                 [ts |-> Clock - 60, items |-> <<>>]}

\* one call of _fetch_sitemap_items: the answer of the network and the cache
\* that the call finds
SitemapArg(net, c) == [fn |-> "sitemap", net |-> net, cache |-> c]

FetchSitemapInputs == {SitemapArg(net, c) : net \in SitemapAnswersAll, c \in CachesAll}

SelectSourcesInputs ==
    {SourcesArg("sources", q, "", net, <<>>, n) :
        q \in {"road closure today", "is the bus delayed", "hello"}, net \in SitemapAnswersAll,
        n \in 0..MaxResults}
    \cup {SourcesArg("sources", "hello", b, net, <<>>, n) :
            b \in {"road_closures", "snow_removal", "transit", "transit_lost_found", "weather"},
            net \in SitemapAnswersAll, n \in 0..MaxResults}

\* the URLs resolved for a road closure question when the sitemap is read
RoadClosureUrls ==
    LET resolved == select_dynamic_sources("road_closures", "", 4,
                                           SitemapEntries([ok |-> TRUE, entries |-> SitemapLocs]))
    IN  {resolved[i].url : i \in 1..Len(resolved)}

\* what the GET of one page can give: a page with text, a page with less than
\* 300 characters of text, an exception
PageAnswers ==
    {Page("", PageText), Page("Road closures", "Please enable JavaScript to view this page."), NoPage}

\* every pattern of answers of the pages resolved for a road closure question
WebPatterns ==
    {[u \in PageUrls |-> IF u \in RoadClosureUrls THEN f[u] ELSE NoPage] :
        f \in [RoadClosureUrls -> PageAnswers]}

BuildContextInputs ==
    {SourcesArg("context", q, "", net, web, n) :
        q \in {"road closure today", "is the bus delayed", "hello"},
        net \in {[ok |-> FALSE, entries |-> <<>>], [ok |-> TRUE, entries |-> SitemapLocs \o TransitLocs]},
        web \in Webs, n \in {1, MaxResults}}
    \cup {SourcesArg("context", "road closure today", "", [ok |-> TRUE, entries |-> SitemapLocs], web, 4) :
            web \in WebPatterns}

\* raw texts of scraped pages: with and without boilerplate phrases, with a
\* phrase inside the words of another, with cheque sections, with runs of
\* blanks and newlines
CleanTexts ==
    {"", " ", "Parking permits are issued for one year.", ParkingContent, WasteContent,
     "a Section Menu b", "City Section Menu Hall", "Contact City Hall Us about permits",
     "SECTION MENU Contact us  x\t\ty", "Section Menus",
     "City of Kingston City Hall\n\n\n\nfoo \n\n bar",
     "a\n \n\n\nb",
     "Pay here. Make your cheque payable to the City, PO Box 640 Kingston\n\nnext paragraph",
     "Make your cheque payable to X, no box\n\nnext"}

CleanInputs == {Arg("clean", t, "", "", NoResponse, <<>>, 0) : t \in CleanTexts}

\* the categories of the keyword classifier with their keyword sets, in the
\* order in which they are tried
CategoryKeywords ==
    <<<<"parking", {"parking permit", "parking", "permit", "monthly parking", "residential parking"}>>,
      <<"property_tax", {"property tax", "tax payment", "tax due", "tax bill", "pay taxes"}>>,
      <<"waste_collection", {"blue box", "grey box", "green bin", "what goes", "recycling", "garbage",
                             "waste", "cart", "collection rules"}>>,
      <<"hazardous_waste", {"hazardous waste", "karc", "dispose", "batteries", "drop off"}>>,
      <<"fire_permits", {"fire permit", "open air fire", "burn", "fire pit"}>>,
      <<"noise", {"noise", "quiet hours", "bylaw", "nuisance", "complaint"}>>>>

\* the keywords of all categories
KeywordPhrases == UNION {CategoryKeywords[n][2] : n \in 1..Len(CategoryKeywords)}

\* questions for the keyword classifier: one for each return, questions whose
\* words belong to the keyword sets of two categories, and every keyword alone
FallbackQuestions ==
    Questions \cup KeywordPhrases \cup
    {"", "12 King St collection day", "When is my garbage day at 12 king street", "garbage at 12 king st",
     "when is my garbage day", CollectedAtMainStreet,
     "PARKING on my street", "parking tax bill", "property tax on garbage", "how to dispose of garbage",
     "hazardous waste depot", "where to drop off batteries", "burn batteries", "fire pit noise",
     "noise complaint", "quiet hours for a fire permit", "who is the mayor"}

FallbackInputs == {Arg("fallback", q, "", "", NoResponse, <<>>, 0) : q \in FallbackQuestions}

\* questions for the router: one for each bucket and for none, and questions
\* with terms of two buckets
BucketQuestions ==
    Questions \cup
    {"", "is Princess Street blocked", "road closure because of snow", "snow plow on my road",
     "snow plow on my street", "contruction on my street", "is my road open today",
     "winter bus route", "I lost my wallet on the bus", "I lost my wallet",
     "lost my phone on the bus in the snow", "lost item on a bus detour", "is the bus delayed",
     "bus detour", "transit weather", "weather forecast", "Weather on the road tomorrow"}

BucketInputs == {Arg("bucket", q, "", "", NoResponse, <<>>, 0) : q \in BucketQuestions}

\* the helpers that read _SITEMAP_CACHE
SitemapReaders == {"sitemap", "sources", "context"}

FnInit ==
    /\ endpoint = "fn"
    /\ pc = "call"
    /\ fnIn \in ClassifyInputs \cup DetectInputs \cup TranslateInputs \cup ValidateInputs \cup SelectInputs
                \cup FetchSitemapInputs \cup SelectSourcesInputs \cup BuildContextInputs
                \cup CleanInputs \cup FallbackInputs \cup BucketInputs
    /\ fnOut = <<>>
    /\ query = "" /\ language = "en" /\ top_k = 0
    /\ cache \in (IF fnIn.fn = "sitemap" THEN {fnIn.cache}
                  ELSE IF fnIn.fn \in SitemapReaders THEN CachesAll ELSE {EmptyCache})
    /\ now = Clock
    /\ Fresh
    /\ frames = <<>> /\ running = 0

\* the call returns out
Return(fn, out) ==
    /\ endpoint = "fn" /\ pc = "call" /\ fnIn.fn = fn
    /\ fnOut' = out
    /\ pc' = "returned"
    /\ UNCHANGED <<frames, running, endpoint, language, top_k, query, user_language, dynamic, intent_type, category,
                   user_address, formatted_results, context_parts, sources, dyn_context,
                   full_answer, events, response, calls, faults, cache, now, validation_result,
                   fnIn>>

\* the call returns out and leaves the cache c
ReturnCaching(fn, out, c) ==
    /\ endpoint = "fn" /\ pc = "call" /\ fnIn.fn = fn
    /\ fnOut' = out
    /\ cache' = c
    /\ pc' = "returned"
    /\ UNCHANGED <<frames, running, endpoint, language, top_k, query, user_language, dynamic, intent_type, category,
                   user_address, formatted_results, context_parts, sources, dyn_context,
                   full_answer, events, response, calls, faults, now, validation_result, fnIn>>

\* _fetch_sitemap_items(): the GET of the sitemap, when one is made, goes to the log
ApplyFetchSitemap ==
    /\ endpoint = "fn" /\ pc = "call" /\ fnIn.fn = "sitemap"
    /\ \E sm \in {_fetch_sitemap_items(cache, now, fnIn.net)} :
            /\ fnOut' = sm.items
            /\ cache' = sm.cache
            /\ calls' = IF sm.fetched THEN Append(calls, Call("sitemap", "")) ELSE calls
            /\ faults' = IF sm.fetched /\ ~fnIn.net.ok THEN Append(faults, "sitemap") ELSE faults
    /\ pc' = "returned"
    /\ UNCHANGED <<frames, running, endpoint, language, top_k, query, user_language, dynamic, intent_type, category,
                   user_address, formatted_results, context_parts, sources, dyn_context,
                   full_answer, events, response, now, validation_result, fnIn>>

ApplySelectSources ==
    /\ endpoint = "fn" /\ fnIn.fn = "sources"
    /\ \E sm \in {_fetch_sitemap_items(cache, now, fnIn.net)} :
            ReturnCaching("sources", select_dynamic_sources(fnIn.bucket, fnIn.text, fnIn.k, sm.items), sm.cache)

ApplyBuildContext ==
    /\ endpoint = "fn" /\ fnIn.fn = "context"
    /\ \E ctx \in {build_dynamic_context(fnIn.text, fnIn.k, cache, now, fnIn.net, fnIn.web)} :
            ReturnCaching("context", ctx, ctx.cache)

ApplyClassify == Return("classify", classify_question_intent(fnIn.text, fnIn.resp))

ApplyDetect == Return("detect", detect_language(fnIn.text, fnIn.resp))

ApplyTranslate == Return("translate", translate_text(fnIn.text, fnIn.target, fnIn.source, fnIn.resp))

ApplyValidate == Return("validate", validate_answer_relevance("", fnIn.text, "parking", fnIn.resp))

ApplySelect == Return("select", _select_context_and_results(fnIn.matches, fnIn.text, fnIn.k))

ApplyClean == Return("clean", _clean_retrieved_content(fnIn.text))

ApplyFallback == Return("fallback", classify_question_intent_fallback(fnIn.text))

ApplyBucket == Return("bucket", classify_dynamic_bucket(fnIn.text))

FnNext ==
    \/ ApplyClassify
    \/ ApplyDetect
    \/ ApplyTranslate
    \/ ApplyValidate
    \/ ApplySelect
    \/ ApplyFetchSitemap
    \/ ApplySelectSources
    \/ ApplyBuildContext
    \/ ApplyClean
    \/ ApplyFallback
    \/ ApplyBucket

FnSpec == FnInit /\ [][FnNext]_vars

\* requests and helper calls together
AllNext ==
    \/ StreamLanguage
    \/ StreamClassify
    \/ StreamGreeting
    \/ StreamDynamicContext
    \/ StreamDynamicAnswer
    \/ StreamOutOfScope
    \/ StreamLiveLookup
    \/ StreamRetrieve
    \/ StreamNoContext
    \/ StreamContextCheck
    \/ StreamAnswer
    \/ StreamValidate
    \/ QueryClassify
    \/ QueryGreeting
    \/ QueryRetrieve
    \/ QueryAnswer
    \/ ApplyClassify
    \/ ApplyDetect
    \/ ApplyTranslate
    \/ ApplyValidate
    \/ ApplySelect
    \/ ApplyFetchSitemap
    \/ ApplySelectSources
    \/ ApplyBuildContext
    \/ ApplyClean
    \/ ApplyFallback
    \/ ApplyBucket

AllSpec == (Init \/ FnInit) /\ [][AllNext]_vars

-----------------------------------------------------------------------------
(* Requests in flight.  The handlers are coroutines (async def) of the one  *)
(* event loop of uvicorn.run: the loop executes the code of one request     *)
(* until that code suspends.  Of each request the call of                   *)
(* _fetch_sitemap_items is followed statement by statement.                 *)

\* the requests in flight
MaxRequests == 2

Requests == 1..MaxRequests

\* how often the clock advances, by half of SITEMAP_TTL_SECONDS
MaxTicks == 2

\* answers of the sitemap GET of a request in flight
RequestAnswers ==
    SitemapAnswers \cup {[ok |-> TRUE, entries |-> SubSeq(TransitLocs, 1, 1) \o SubSeq(TransitLocs, 3, 4)]}

\* a call of _fetch_sitemap_items not yet begun: at is its position, now and
\* items are its locals, ts is the timestamp its test read, out is what it
\* returned, cached: it returned at line 361, fetched: it wrote the cache,
\* wrote: the how-manieth write of the cache that was
NewFrame ==
    [at |-> "call", now |-> 0, ts |-> 0, items |-> <<>>, out |-> <<>>, cached |-> FALSE,
     fetched |-> FALSE, wrote |-> 0]

RequestsInit ==
    /\ endpoint = "requests"
    /\ pc = "serving"
    /\ \E c \in CachesAll : cache = c /\ fnIn = [fn |-> "requests", cache |-> c]
    /\ fnOut = <<>>
    /\ query = "" /\ language = "en" /\ top_k = 0
    /\ now = Clock
    /\ Fresh
    /\ frames = [r \in Requests |-> NewFrame]
    /\ running = 0

\* what a step of the requests in flight leaves alone
RequestsUnchanged ==
    UNCHANGED <<endpoint, pc, language, top_k, query, user_language, dynamic, intent_type, category,
                user_address, formatted_results, context_parts, sources, dyn_context, full_answer,
                events, response, calls, faults, validation_result, fnIn, fnOut>>

\* fault: the code of a request can be suspended between any two statements
SuspendsAnywhere(at) == TRUE

\* the positions of a call at which the code of the request can be suspended:
\* _fetch_sitemap_items is a plain function, it holds no await, and so are its
\* callers down from the handler; the handler suspends after the call returned
SuspendsAt(at) == at = "done"

\* the event loop goes on with request r
Schedule(r) ==
    /\ endpoint = "requests" /\ running = 0
    /\ frames[r].at # "done"
    /\ running' = r
    /\ UNCHANGED <<frames, cache, now>>
    /\ RequestsUnchanged

\* the code of request r suspends
Suspend(r) ==
    /\ endpoint = "requests" /\ running = r
    /\ SuspendsAt(frames[r].at)
    /\ running' = 0
    /\ UNCHANGED <<frames, cache, now>>
    /\ RequestsUnchanged

\* request r executes the statement at position at, which leaves its frame as f
\* and the cache as c
Step(r, at, f, c) ==
    /\ endpoint = "requests" /\ running = r
    /\ frames[r].at = at
    /\ frames' = [frames EXCEPT ![r] = f]
    /\ cache' = c
    /\ UNCHANGED <<running, now>>
    /\ RequestsUnchanged

\* now = time.time()
ReadClock(r) == Step(r, "call", [frames[r] EXCEPT !.at = "test_items", !.now = now], cache)

\* if _SITEMAP_CACHE["items"] and ...
TestItems(r) ==
    Step(r, "test_items", [frames[r] EXCEPT !.at = IF cache.items # <<>> THEN "test_age" ELSE "get"], cache)

\* ... (now - float(_SITEMAP_CACHE["ts"])) < SITEMAP_TTL_SECONDS
TestAge(r) ==
    Step(r, "test_age",
         [frames[r] EXCEPT !.ts = cache.ts,
                           !.at = IF (frames[r].now - cache.ts) < SITEMAP_TTL_SECONDS THEN "return" ELSE "get"],
         cache)

\* return _SITEMAP_CACHE["items"]
ReturnCached(r) ==
    Step(r, "return", [frames[r] EXCEPT !.at = "done", !.out = cache.items, !.cached = TRUE], cache)

\* the try block up to the end of the for loop, and the except branch
GetSitemap(r) ==
    \E net \in RequestAnswers :
        Step(r, "get",
             IF net.ok THEN [frames[r] EXCEPT !.at = "write_ts", !.items = SitemapEntries(net)]
             ELSE [frames[r] EXCEPT !.at = "done", !.out = <<>>],
             cache)

\* _SITEMAP_CACHE["ts"] = now
WriteTs(r) ==
    Step(r, "write_ts", [frames[r] EXCEPT !.at = "write_items"], [cache EXCEPT !.ts = frames[r].now])

\* _SITEMAP_CACHE["items"] = items; return items
WriteItems(r) ==
    Step(r, "write_items",
         [frames[r] EXCEPT !.at = "done", !.out = frames[r].items, !.fetched = TRUE,
                           !.wrote = 1 + Cardinality({w \in Requests : frames[w].fetched})],
         [cache EXCEPT !.items = frames[r].items])

\* time passes
Tick ==
    /\ endpoint = "requests"
    /\ now < Clock + MaxTicks * (SITEMAP_TTL_SECONDS \div 2)
    /\ now' = now + (SITEMAP_TTL_SECONDS \div 2)
    /\ UNCHANGED <<frames, running, cache>>
    /\ RequestsUnchanged

RequestsNext ==
    \/ \E r \in Requests : Schedule(r)
    \/ \E r \in Requests : Suspend(r)
    \/ \E r \in Requests : ReadClock(r)
    \/ \E r \in Requests : TestItems(r)
    \/ \E r \in Requests : TestAge(r)
    \/ \E r \in Requests : ReturnCached(r)
    \/ \E r \in Requests : GetSitemap(r)
    \/ \E r \in Requests : WriteTs(r)
    \/ \E r \in Requests : WriteItems(r)
    \/ Tick

RequestsSpec == RequestsInit /\ [][RequestsNext]_vars

-----------------------------------------------------------------------------
(* Properties *)

Last(s) == s[Len(s)]

StreamEnded == endpoint = "stream" /\ pc = "end"

QueryEnded == endpoint = "query" /\ pc = "end"

\* the positions of the events of a type
EventsOfType(type) == {i \in 1..Len(events) : events[i].type = type}

\* a done event, an error event, or a text event carrying done: true
IsCompletion(e) == e.type \in {"done", "error"} \/ (e.type = "text" /\ e.done)

Called(fn) == \E i \in 1..Len(calls) : calls[i].fn = fn

Faulted(fns) == \E i \in 1..Len(faults) : faults[i] \in fns

\* the stream ended with an error event, or the response is an HTTP 500
EndedInError ==
    \/ StreamEnded /\ Last(events).type = "error"
    \/ QueryEnded /\ response.status = 500

\* the static route assembled no context block
NoContextAssembled ==
    /\ pc = "end" /\ endpoint \in Endpoints
    /\ Called("search") /\ ~Faulted({"search"})
    /\ context_parts = <<>>

\* the request was answered with the fixed apology (translated for a French user)
ApologyGiven ==
    IF endpoint = "stream"
    THEN \E t \in TranslationsFor(NO_CONTEXT_EN) : Last(events) = FinalTextEvent(Localized(NO_CONTEXT_EN, t))
    ELSE response.status = 200 /\ response.answer = NO_CONTEXT_QUERY

\* no source is shown to the user
NoSourcesShown ==
    IF endpoint = "stream"
    THEN \A i \in EventsOfType("results") : events[i].results = <<>>
    ELSE response.results = <<>>

\* C1: on both endpoints, when the static route assembles no context block the
\* handler next attempts build_dynamic_context, and it answers with the fixed
\* apology sentence, which names the 311 phone contact, and with no sources
\* exactly when that attempt yields no context either.
C1_FallbackCascade ==
    NoContextAssembled =>
        /\ \E i, j \in 1..Len(calls) :
              i < j /\ calls[i].fn = "search" /\ calls[j].fn = "build_dynamic_context"
        /\ dyn_context = <<>> => ApologyGiven /\ NoSourcesShown
        /\ ApologyGiven => dyn_context = <<>>
        /\ \A a \in {NO_CONTEXT_EN, NO_CONTEXT_QUERY} : StrContains(a, "311 at 613-546-0000")

\* C2: the events of /query/stream hold at most one completion signal, nothing
\* follows it, and a finished stream ends with it.
C2_OneCompletionSignal ==
    endpoint = "stream" =>
        /\ \A i \in 1..Len(events) : IsCompletion(events[i]) => i = Len(events)
        /\ pc = "end" => events # <<>> /\ IsCompletion(Last(events))

\* a stream that sent text fragments and then ended with an error event
C2_Witness ==
    /\ StreamEnded /\ Len(events) >= 2
    /\ Last(events).type = "error"
    /\ events[1].type = "text"

\* C3 as stated: every stream that ends without an error event holds exactly
\* one results event, and no text event follows it.
C3_OneResultsEventAfterText ==
    StreamEnded /\ Last(events).type # "error" =>
        /\ Cardinality(EventsOfType("results")) = 1
        /\ \A r \in EventsOfType("results"), t \in EventsOfType("text") : t < r

\* C3 amended: a stream that ends with a done event holds exactly one results
\* event, directly before the done event and after every text event; a stream
\* that ends with a final text (done: true) or with an error event holds none.
C3_ResultsOnlyBeforeDone ==
    StreamEnded =>
        IF Last(events).type = "done"
        THEN /\ EventsOfType("results") = {Len(events) - 1}
             /\ \A t \in EventsOfType("text") : t < Len(events) - 1
        ELSE EventsOfType("results") = {}

\* the greeting stream: one final text and no results event
C3_Witness ==
    /\ StreamEnded
    /\ events = <<FinalTextEvent(GREETING_EN)>>

\* C4: the validation step only appends to the events.  For a verdict
\* is_relevant = false it appends the correction sentence (translated for a
\* French user) as one text event, then a results event with an empty list,
\* then done; for is_relevant = true it appends the results event with the
\* assembled display list, then done, and no correction.
C4_CorrectionAppended ==
    [][endpoint = "stream" /\ pc = "validate" =>
          IF ~validation_result'.is_relevant
          THEN \E t \in TranslationsFor(CORRECTION_EN) :
                  events' = events \o <<TextEvent(Localized(CORRECTION_EN, t)), ResultsEvent(<<>>), DoneEvent>>
          ELSE events' = events \o <<ResultsEvent(formatted_results), DoneEvent>>]_vars

\* an answer with sources was streamed, then judged not relevant
C4_Witness ==
    /\ StreamEnded
    /\ ~validation_result.is_relevant
    /\ Len(events) >= 5
    /\ events[1].type = "text" /\ events[1].content # ""
    /\ events[Len(events) - 2] = TextEvent(CORRECTION_EN)
    /\ events[Len(events) - 1] = ResultsEvent(<<>>)

\* the verdict word of a validator response: the text before the first "|"
VerdictWord(resp) ==
    LET bar == Find(resp.content, "|", 1)
    IN  Upper(Strip(IF bar = 0 THEN resp.content ELSE SubSeq(resp.content, 1, bar - 1)))

\* C5: validate_answer_relevance fails open.  When the call raises or the
\* response expresses neither YES nor NO the result is is_relevant = true, and
\* is_relevant = false is returned only for a response that expresses NO.
C5_FailsOpen ==
    endpoint = "fn" /\ pc = "returned" /\ fnIn.fn = "validate" =>
        /\ (~fnIn.resp.ok \/ VerdictWord(fnIn.resp) \notin {"YES", "NO"}) => fnOut.is_relevant
        /\ ~fnOut.is_relevant => fnIn.resp.ok /\ VerdictWord(fnIn.resp) = "NO"

\* the texts the user is shown
UserTexts ==
    IF endpoint = "stream"
    THEN {events[i].content : i \in EventsOfType("text") \cup EventsOfType("error")}
    ELSE {response.answer, response.detail}

\* the last text the user is shown
FinalUserText ==
    IF endpoint = "stream"
    THEN Last(SelectSeq(events, LAMBDA e : e.type \in {"text", "error"})).content
    ELSE IF response.status = 200 THEN response.answer ELSE response.detail

\* the fixed fallback texts, as written and as the translation returns them
FallbackTexts ==
    UNION {{a} \cup {Localized(a, t) : t \in TranslationsFor(a)} :
              a \in {NO_SOURCES_EN, NO_CONTEXT_EN, NOT_CONFIRMED_EN, CORRECTION_EN, NO_CONTEXT_QUERY}}

\* C6: on both endpoints a request in which an external call failed shows the
\* user no raw exception message, and when the failed call is the embedding,
\* the vector search or the answer generation, or a page fetch after which no
\* answer was generated, the last text shown is one of the fixed fallback
\* texts, each of which names the 311 contact.
C6_FailuresEndInFallback ==
    pc = "end" /\ endpoint \in Endpoints
      /\ Faulted({"embedding", "search", "generate", "stream", "page", "sitemap"}) =>
        /\ \A t \in UserTexts : ~StrContains(t, "Error code: 500")
        /\ (Faulted({"embedding", "search", "generate", "stream"}) \/ ~Called("generate")) =>
              /\ FinalUserText \in FallbackTexts
              /\ \A a \in FallbackTexts : a = "" \/ StrContains(a, "311")

\* C7: no request ends with a blank answer.  A stream that ends without an
\* error event holds a text event with non-empty content, and a successful
\* /query response has a non-empty answer.
C7_NoBlankAnswer ==
    /\ StreamEnded /\ Last(events).type # "error" =>
          \E i \in EventsOfType("text") : events[i].content # ""
    /\ QueryEnded /\ response.status = 200 => response.answer # ""

\* C8: classify_question_intent returns an intent and a category of the
\* closed enumerations, for every question and every response of the
\* classification service.
C8_ValidPair ==
    endpoint = "fn" /\ pc = "returned" /\ fnIn.fn = "classify" =>
        /\ fnOut[1] \in {"out_of_scope", "live_status_lookup", "policy_explanatory"}
        /\ fnOut[2] \in {"parking", "property_tax", "waste_collection", "hazardous_waste",
                          "fire_permits", "noise", "none"}

\* the response is a two-part intent|category string
TwoPart(resp) == resp.ok /\ Cardinality({i \in 1..Len(resp.content) : Char(resp.content, i) = "|"}) = 1

\* C9: when the classification call raises or its response is not a two-part
\* string, classify_question_intent returns the keyword classification of the
\* question; when the detection call is made and fails, detect_language
\* returns "en"; when the translation call fails, translate_text returns its
\* input; and a request ends in an error event or an HTTP 500 only with the
\* message of a failed call that is none of these three.
C9_FailuresDoNotPropagate ==
    /\ endpoint = "fn" /\ pc = "returned" =>
          /\ fnIn.fn = "classify" /\ ~TwoPart(fnIn.resp) =>
                fnOut = classify_question_intent_fallback(fnIn.text)
          /\ fnIn.fn = "detect" /\ ~fnIn.resp.ok /\ ~FrenchByKeywords(fnIn.text) => fnOut = "en"
          /\ fnIn.fn = "translate" /\ ~fnIn.resp.ok => fnOut = fnIn.text
    /\ EndedInError =>
          /\ faults # <<>>
          /\ Last(faults) \notin {"classify", "detect", "translate"}
          /\ FinalUserText \in {ExceptionText(Last(faults)), "Error querying: " \o ExceptionText(Last(faults))}

\* a French request whose classification and translation calls failed and
\* that ended with a done event
C9_Witness ==
    /\ StreamEnded
    /\ Last(events).type = "done"
    /\ \E i, j \in 1..Len(faults) : faults[i] = "classify" /\ faults[j] = "translate"

\* C10: the display records of _select_context_and_results hold no non-empty
\* source_url twice, and the context blocks are those of the display records,
\* one for one.
C10_NoDuplicateUrls ==
    endpoint = "fn" /\ pc = "returned" /\ fnIn.fn = "select" =>
        /\ Len(fnOut[1]) = Len(fnOut[2])
        /\ \A i \in 1..Len(fnOut[1]) : fnOut[1][i].content = Prefix(fnOut[2][i], 500)
        /\ \A i, j \in 1..Len(fnOut[1]) :
              i # j /\ fnOut[1][i].source_url # "" => fnOut[1][i].source_url # fnOut[1][j].source_url

\* two usable matches of one URL were given with room for both, and one came out
C10_Witness ==
    /\ endpoint = "fn" /\ pc = "returned" /\ fnIn.fn = "select"
    /\ fnIn.k = 2 /\ Len(fnIn.matches) = 2
    /\ fnIn.matches[1].source_url = fnIn.matches[2].source_url
    /\ fnIn.matches[1].source_url # ""
    /\ \A i \in 1..2 : fnIn.matches[i].content \in {ParkingContent, WasteContent}
    /\ Len(fnOut[1]) = 1
    /\ fnOut[1][1].source_url = fnIn.matches[1].source_url

\* the match has usable content: at least 200 characters after cleaning
Usable(m) == Len(_clean_retrieved_content(m.content)) >= 200

\* C11 as stated: for every input and every top_k the context list is empty
\* only if no match of the input has usable content.
C11_EmptyOnlyWithoutUsable ==
    endpoint = "fn" /\ pc = "returned" /\ fnIn.fn = "select" /\ fnOut[2] = <<>> =>
        \A i \in 1..Len(fnIn.matches) : ~Usable(fnIn.matches[i])

\* C11 amended: for an input of at most max(6 * top_k, 20) matches the context
\* list is empty only if no match of the input has usable content.
C11_EmptyOnlyWithoutUsableInLimit ==
    endpoint = "fn" /\ pc = "returned" /\ fnIn.fn = "select" /\ fnOut[2] = <<>>
      /\ Len(fnIn.matches) <= Max({6 * fnIn.k, 20}) =>
        \A i \in 1..Len(fnIn.matches) : ~Usable(fnIn.matches[i])

\* the only match of the expected category is boilerplate, and the retry
\* without the category accepted a match of another category
C11_Witness ==
    /\ endpoint = "fn" /\ pc = "returned" /\ fnIn.fn = "select"
    /\ fnIn.text = "parking" /\ Len(fnIn.matches) = 2
    /\ \E i \in 1..2 : fnIn.matches[i].category = "parking" /\ ~Usable(fnIn.matches[i])
    /\ \E i \in 1..2 : fnIn.matches[i].category = "waste_collection" /\ Usable(fnIn.matches[i])
    /\ Len(fnOut[2]) = 1
    /\ fnOut[1][1].category = "waste_collection"

\* the host of url is a member of ALLOWED_DYNAMIC_DOMAINS
AllowListed(url) == Hostname(url) \in ALLOWED_DYNAMIC_DOMAINS

\* the un-stripped loc values of the sitemap answer of the call
LocsGiven == {fnIn.net.entries[i].loc : i \in 1..Len(fnIn.net.entries)}

\* C12: every source returned by select_dynamic_sources has an allow-listed
\* URL, and so has every URL that build_dynamic_context passes to _http_get,
\* every source it returns and every block of its context text, whatever the
\* bucket, the question, the sitemap content, the cache and max_results are.
C12_OnlyAllowListedUrls ==
    endpoint = "fn" /\ pc = "returned" =>
        /\ fnIn.fn = "sources" => \A i \in 1..Len(fnOut) : AllowListed(fnOut[i].url)
        /\ fnIn.fn = "context" =>
              /\ \A i \in 1..Len(fnOut.tried) : AllowListed(fnOut.tried[i])
              /\ \A i \in 1..Len(fnOut.sources) : AllowListed(fnOut.sources[i].url)
              /\ \A i \in 1..Len(fnOut.blocks) : AllowListed(fnOut.blocks[i].url)
              /\ \A i \in 1..Len(fnOut.resolved) : AllowListed(fnOut.resolved[i].url)

\* select_dynamic_sources returned sitemap-derived sources for a bucket whose
\* patterns also match a url entry of the fetched sitemap on a foreign host
C12_Witness ==
    /\ endpoint = "fn" /\ pc = "returned" /\ fnIn.fn = "sources"
    /\ fnIn.net.ok
    /\ fnIn.bucket = "transit"
    /\ \E loc \in LocsGiven : ~AllowListed(loc) /\ StrContains(Lower(loc), "/news/posts/kingston-transit-service-alert")
    /\ Len(fnOut) > Len(CURATED_DYNAMIC_SOURCES("transit"))

\* the entries of seq whose url no earlier entry has, in their order
FirstOccurrences(seq) ==
    LET first == SelectSeq([i \in 1..Len(seq) |-> i],
                           LAMBDA i : \A j \in 1..(i - 1) : seq[j].url # seq[i].url)
    IN  [n \in 1..Len(first) |-> seq[first[n]]]

\* the bucket that select_dynamic_sources(bucket0, question) works with
BucketOf(bucket0, question) == IF bucket0 # "" THEN bucket0 ELSE classify_dynamic_bucket(question)

\* the curated sources of bucket followed by the sitemap-derived URLs of items
\* in pick order, each under the title "Official update"
CuratedThenSitemap(bucket, items) ==
    CURATED_DYNAMIC_SOURCES(bucket)
    \o [i \in 1..Len(ExtraUrls(bucket, items)) |-> [title |-> "Official update", url |-> ExtraUrls(bucket, items)[i]]]

\* out has no URL twice, its curated entries come first and carry their curated
\* titles, and it has at most k entries
WellOrdered(out, curated, k) ==
    /\ \A i, j \in 1..Len(out) : out[i].url = out[j].url => i = j
    /\ Len(out) <= k
    /\ \A i \in 1..Len(out) :
          IF \E c \in 1..Len(curated) : curated[c].url = out[i].url
          THEN /\ \E c \in 1..Len(curated) : curated[c] = out[i]
               /\ \A j \in 1..(i - 1) : \E c \in 1..Len(curated) : curated[c] = out[j]
          ELSE out[i].title = "Official update"

\* C13: select_dynamic_sources returns the first max_results (0 and more)
\* entries of the sequence of first occurrences of the bucket's curated sources
\* followed by the sitemap-derived URLs in pick order: no URL twice, curated
\* entries before sitemap-derived ones, a URL of both under its curated title,
\* and at most max_results entries.
C13_CuratedFirstNoDuplicates ==
    [][endpoint = "fn" /\ pc = "call" /\ fnIn.fn = "sources" =>
          /\ fnOut' = Prefix(FirstOccurrences(CuratedThenSitemap(BucketOf(fnIn.bucket, fnIn.text),
                                                _fetch_sitemap_items(cache, now, fnIn.net).items)),
                             fnIn.k)
          /\ WellOrdered(fnOut', CURATED_DYNAMIC_SOURCES(BucketOf(fnIn.bucket, fnIn.text)), fnIn.k)]_vars

\* select_dynamic_sources returned a curated source whose URL the fetched
\* sitemap lists too and that a pick selected, and after it a sitemap-derived
\* source
C13_Witness ==
    /\ endpoint = "fn" /\ pc = "returned" /\ fnIn.fn = "sources"
    /\ fnIn.net.ok /\ Len(fnIn.net.entries) = 3
    /\ \E i, j \in 1..Len(fnOut) :
          /\ i < j
          /\ fnOut[i].url \in LocsGiven /\ fnOut[i].title = "Transit News and Notices"
          /\ fnOut[j].title = "Official update"

\* C14: when _fetch_sitemap_items has to fetch (the cache is not fresh) and the
\* GET or the parse fails, it returns the items of the cache, which are those
\* of the last successful fetch and are empty only when none succeeded; the
\* failure leaves the cache as it was.
C14_FailureReturnsLastGoodCache ==
    endpoint = "fn" /\ pc = "returned" /\ fnIn.fn = "sitemap" /\ ~fnIn.net.ok /\ ~CacheFresh(cache, now) =>
        fnOut = cache.items

\* C15: for a French user of /query/stream, once the question is translated,
\* classification, the official-site search and the embedding are called with
\* the English question, and the validation is called with the English answer
\* that was handed to the translation just before, not with its translation.
C15_WorkingLanguageTexts ==
    endpoint = "stream" /\ user_language = "fr" =>
        \A i \in 1..Len(calls) :
            /\ calls[i].fn \in {"classify", "build_dynamic_context", "embedding", "search", "generate"} =>
                  calls[i].arg = query
            /\ calls[i].fn = "validate" =>
                  /\ i > 1 /\ calls[i - 1].fn = "translate"
                  /\ calls[i].arg = calls[i - 1].arg

\* the request asks for French, or it asks for detection and French is detected
FrenchUser == language = "fr" \/ user_language = "fr"

\* C16: when a request of a French user ends with an answer (no error event,
\* status 200), a translation call was made after the classification, for the
\* text of the answer; when a request of an English user of /query/stream
\* ends, no translation call was made.
C16_AnswersTranslated ==
    /\ pc = "end" /\ endpoint \in Endpoints /\ FrenchUser /\ ~EndedInError =>
          \E i, j \in 1..Len(calls) : i < j /\ calls[i].fn = "classify" /\ calls[j].fn = "translate"
    /\ StreamEnded /\ user_language = "en" => ~Called("translate")

\* the positions of the calls of fn in the log
CallsOf(fn) == {i \in 1..Len(calls) : calls[i].fn = fn}

\* C17: a request to /query makes at most two answer-generation calls: the
\* first one and at most one regeneration.
C17_AtMostOneRegeneration ==
    endpoint = "query" => Cardinality(CallsOf("generate")) <= 2

\* generate() takes the greeting, the out-of-scope or the live-lookup route:
\* the greeting test comes first, the official-site route second
CannedRouteOfStream ==
    \/ is_greeting_or_simple_query(query)
    \/ ~dynamic /\ (OutOfScope \/ intent_type = "live_status_lookup")

\* the English text of that route
CannedTextOfStream ==
    IF is_greeting_or_simple_query(query) THEN GREETING_EN
    ELSE IF OutOfScope THEN OUT_OF_SCOPE_EN
    ELSE LiveAnswerStream(user_address)

\* query_pinecone() takes the live-lookup or the greeting route (it has no
\* out-of-scope route): the live-lookup test comes first
CannedTextsOfQuery ==
    IF intent_type = "live_status_lookup" THEN {LiveAnswerQuery(user_address)}
    ELSE IF is_greeting_or_simple_query(query) THEN greeting_responses
    ELSE {}

LiveLookupAnswered ==
    \/ StreamEnded /\ ~is_greeting_or_simple_query(query) /\ ~dynamic /\ ~OutOfScope
                   /\ intent_type = "live_status_lookup"
    \/ QueryEnded /\ intent_type = "live_status_lookup"

\* C19: the answer of the live-lookup route, as written in English, holds the
\* URL of the collection calendar, on /query/stream and on /query, with an
\* address in the question and without one.
C19_CalendarUrlReferenced ==
    LiveLookupAnswered /\ user_language # "fr" => StrContains(FinalUserText, calendar_url)

\* C20: once the iteration over the token stream of an answer generation has
\* raised on /query/stream, on the official-site route, the static route or
\* its official-site fallback, the request is over, the error event is the
\* last event, and all events before it are the text fragments: there is no
\* results event, no done event and no final text.
C20_StreamFailureEndsInErrorEvent ==
    endpoint = "stream" /\ Faulted({"stream"}) =>
        /\ pc = "end"
        /\ events # <<>>
        /\ Last(events).type = "error"
        /\ \A i \in 1..(Len(events) - 1) : events[i].type = "text" /\ ~events[i].done

\* the token stream raised after one fragment was emitted
C20_Witness ==
    /\ StreamEnded /\ Faulted({"stream"})
    /\ Len(events) = 2
    /\ events[1] = TextEvent("Permits ")
    /\ events[2].type = "error"

\* the token stream raised before any fragment was emitted
C20_WitnessNoFragment ==
    /\ StreamEnded /\ Faulted({"stream"})
    /\ user_language = "en"
    /\ Len(events) = 1

\* the arguments of the calls of fn, in the order of the log
ArgsOf(fn) ==
    LET made == SelectSeq(calls, LAMBDA c : c.fn = fn)
    IN  [i \in 1..Len(made) |-> made[i].arg]

\* the number of failed calls of fn
FaultsOf(fn) == Cardinality({i \in 1..Len(faults) : faults[i] = fn})

\* a road-closure question took the official-site route of /query/stream, the
\* sitemap GET failed and so did every page GET
RoadClosuresOffline ==
    /\ StreamEnded /\ dynamic /\ ~is_greeting_or_simple_query(query)
    /\ classify_dynamic_bucket(query) = "road_closures"
    /\ FaultsOf("sitemap") = 1
    /\ ArgsOf("page") # <<>> /\ FaultsOf("page") = Len(ArgsOf("page"))

\* C21: for a road-closure question, when the sitemap GET and every page GET
\* fail, the pages that build_dynamic_context asks for are the curated sources
\* of the bucket, all of them and in their order, and the streamed answer is a
\* generated answer or holds the sentence "I couldn't confirm that on official
\* City of Kingston sources".
C21_CuratedSourcesStillAnswer ==
    RoadClosuresOffline =>
        /\ ArgsOf("page") = [i \in 1..Len(CURATED_DYNAMIC_SOURCES("road_closures")) |->
                                CURATED_DYNAMIC_SOURCES("road_closures")[i].url]
        /\ \/ Called("generate")
           \/ \E text \in UserTexts :
                 StrContains(text, "I couldn't confirm that on official City of Kingston sources")

\* C22: cleaning a cleaned text changes nothing, the cleaned text is never
\* longer than the raw text, and the empty text is cleaned to the empty text.
C22_CleanIdempotentNonExpanding ==
    endpoint = "fn" /\ pc = "returned" /\ fnIn.fn = "clean" =>
        /\ _clean_retrieved_content(fnOut) = fnOut
        /\ Len(fnOut) <= Len(fnIn.text)
        /\ fnIn.text = "" => fnOut = ""

\* the positions of the categories a keyword of which occurs in the question
CategoriesMatching(question) ==
    {n \in 1..Len(CategoryKeywords) : \E k \in CategoryKeywords[n][2] : StrContains(Lower(question), k)}

\* the question holds a number, a word and a street suffix, and a collection keyword
AddressAndCollection(question) ==
    /\ \E i \in 1..Len(question) : StreetPatternAt(Lower(question), i)
    /\ \/ \E k \in {"when is my", "when does my", "what day is my", "my collection day", "my pickup day",
                      "check my collection", "find my collection"} : StrContains(Lower(question), k)
       \/ StrContains(Lower(question), "collection") /\ StrContains(Lower(question), "day")

\* C23: classify_question_intent_fallback returns a pair for every question,
\* from the text alone: (live_status_lookup, waste_collection) exactly when the
\* text holds a street-address pattern and a collection keyword; otherwise
\* policy_explanatory with the first category, in the order parking,
\* property_tax, waste_collection, hazardous_waste, fire_permits, noise, a
\* keyword of which occurs in the text, and waste_collection when none does.
C23_FallbackByKeywordOrder ==
    endpoint = "fn" /\ pc = "returned" /\ fnIn.fn = "fallback" =>
        /\ fnOut = <<"live_status_lookup", "waste_collection">> <=> AddressAndCollection(fnIn.text)
        /\ ~AddressAndCollection(fnIn.text) =>
              /\ fnOut[1] = "policy_explanatory"
              /\ IF CategoriesMatching(fnIn.text) = {}
                 THEN fnOut[2] = "waste_collection"
                 ELSE fnOut[2] = CategoryKeywords[Min(CategoriesMatching(fnIn.text))][1]

\* a question with keywords of waste_collection and of hazardous_waste was
\* given the category that is tried first, waste_collection
C23_Witness ==
    /\ endpoint = "fn" /\ pc = "returned" /\ fnIn.fn = "fallback"
    /\ CategoriesMatching(fnIn.text) = {3, 4}
    /\ fnOut = <<"policy_explanatory", "waste_collection">>

\* C24: when the classification call fails, classify_question_intent gives
\* "what day is garbage collected at 123 Main Street" the pair
\* (live_status_lookup, waste_collection), which is what sends a request to the
\* live-lookup route, and the address extracted from it holds "123 main street".
C24_LiveLookupWithoutClassifier ==
    endpoint = "fn" /\ pc = "returned" /\ fnIn.fn = "classify"
        /\ fnIn.text = CollectedAtMainStreet /\ ~fnIn.resp.ok =>
            /\ fnOut = <<"live_status_lookup", "waste_collection">>
            /\ StrContains(Lower(extract_address_clean(fnIn.text)), "123 main street")

\* a term of the set occurs in the question, whatever the case of its letters
Mentions(question, terms) == \E k \in terms : StrContains(Lower(question), k)

RoadTerms ==
    {"road closure", "road closures", "road closed", "lane closed", "closure", "traffic", "detour",
     "construction", "road work", "roadwork", "blocked", "road blocked", "blockage"}

ConstructionTypos == {"contruc", "constuc", "construc"}

TimeWords == {"today", "tomorrow", "now", "right now", "current", "latest", "updated"}

SnowTerms == {"snow", "snow removal", "plow", "plowing", "winter maintenance", "winter"}

LostPhrases == {"lost and found", "lost my", "lost wallet", "lost phone", "lost item"}

LostTransitTerms == {"transit", "bus", "kingston transit"}

TransitTerms == {"transit", "bus", "kingston transit", "route", "detour", "delay", "delayed", "cancelled", "canceled"}

\* the rules of the router in their order: <<bucket, the rule matches>>
BucketRules(question) ==
    <<<<"road_closures", \/ Mentions(question, RoadTerms)
                        \/ (Mentions(question, TimeWords) /\ Mentions(question, {"road"}))
                        \/ Mentions(question, ConstructionTypos)>>,
      <<"snow_removal", Mentions(question, SnowTerms)>>,
      <<"transit_lost_found", Mentions(question, LostPhrases) /\ Mentions(question, LostTransitTerms)>>,
      <<"transit", Mentions(question, TransitTerms)>>,
      <<"weather", Mentions(question, {"weather"})>>>>

RulesMatching(question) == {n \in 1..5 : BucketRules(question)[n][2]}

\* C25: classify_dynamic_bucket returns the bucket of the first rule that
\* matches, in the order road_closures, snow_removal, transit_lost_found,
\* transit, weather, and none when no rule matches: a road-closure term with a
\* snow term gives road_closures, and transit_lost_found is returned only for a
\* lost-item phrase with a transit term when neither the road rule nor the
\* snow rule matches.
C25_FirstMatchingBucket ==
    endpoint = "fn" /\ pc = "returned" /\ fnIn.fn = "bucket" =>
        /\ fnOut = IF RulesMatching(fnIn.text) = {} THEN ""
                   ELSE BucketRules(fnIn.text)[Min(RulesMatching(fnIn.text))][1]
        /\ Mentions(fnIn.text, RoadTerms) /\ Mentions(fnIn.text, SnowTerms) => fnOut = "road_closures"
        /\ fnOut = "transit_lost_found" =>
              /\ Mentions(fnIn.text, LostPhrases) /\ Mentions(fnIn.text, LostTransitTerms)
              /\ RulesMatching(fnIn.text) \cap {1, 2} = {}

\* a question with a road-closure term and a snow term was routed
C25_Witness ==
    /\ endpoint = "fn" /\ pc = "returned" /\ fnIn.fn = "bucket"
    /\ Mentions(fnIn.text, RoadTerms) /\ Mentions(fnIn.text, SnowTerms)
    /\ fnOut = "road_closures"

\* a question with a lost-item phrase, a transit term and a snow term was routed
C25_WitnessLostInSnow ==
    /\ endpoint = "fn" /\ pc = "returned" /\ fnIn.fn = "bucket"
    /\ RulesMatching(fnIn.text) = {2, 3, 4}
    /\ fnOut = "snow_removal"

\* C26: classify_dynamic_bucket returns road_closures only for a question with
\* a road-closure term, a misspelling of construction, or a time word together
\* with "road", and it routes "snow plow on my road" to snow_removal.
C26_SnowPlowIsSnowRemoval ==
    endpoint = "fn" /\ pc = "returned" /\ fnIn.fn = "bucket" =>
        /\ fnOut = "road_closures" =>
              \/ Mentions(fnIn.text, RoadTerms)
              \/ Mentions(fnIn.text, ConstructionTypos)
              \/ (Mentions(fnIn.text, TimeWords) /\ Mentions(fnIn.text, {"road"}))
        /\ fnIn.text = "snow plow on my road" => fnOut = "snow_removal"

\* the score of a match, 0 when it carries none
ScoreOf(m) == IF m.score = <<>> THEN 0 ELSE m.score[1]

\* the display record and the context block come from the match m
DerivedFrom(record, block, m) ==
    /\ record.score = ScoreOf(m)
    /\ record.source_url = m.source_url /\ record.category = m.category /\ record.topic = m.topic
    /\ block = Prefix(_clean_retrieved_content(m.content), 2000)
    /\ record.content = Prefix(_clean_retrieved_content(m.content), 500)

\* C27: the display records of _select_context_and_results are in
\* non-increasing order of score, in whatever order the matches are given and
\* with a missing score counting as 0; there are as many context blocks as
\* display records, and the i-th of each come from one and the same match.
C27_OrderedByScore ==
    endpoint = "fn" /\ pc = "returned" /\ fnIn.fn = "select" =>
        /\ Len(fnOut[1]) = Len(fnOut[2])
        /\ \A i, j \in 1..Len(fnOut[1]) : i < j => fnOut[1][i].score >= fnOut[1][j].score
        /\ \A i \in 1..Len(fnOut[1]) :
              \E n \in 1..Len(fnIn.matches) : DerivedFrom(fnOut[1][i], fnOut[2][i], fnIn.matches[n])

\* two usable matches were given in ascending order of score, the first
\* without a score, and both came out
C27_Witness ==
    /\ endpoint = "fn" /\ pc = "returned" /\ fnIn.fn = "select"
    /\ Len(fnIn.matches) = 2
    /\ fnIn.matches[1].score = <<>> /\ fnIn.matches[2].score # <<>>
    /\ Len(fnOut[1]) = 2
    /\ fnOut[1][2].score = 0 /\ fnOut[1][1].score > 0

\* C28: for every top_k of 0 and more, _select_context_and_results returns at
\* most top_k display records and at most top_k context blocks.
C28_AtMostTopK ==
    endpoint = "fn" /\ pc = "returned" /\ fnIn.fn = "select" =>
        Len(fnOut[1]) <= fnIn.k /\ Len(fnOut[2]) <= fnIn.k

\* C29: every display record and context block of _select_context_and_results
\* comes from a match whose cleaned content has 200 characters or more, a
\* display record holds at most 500 characters of it and a context block at
\* most 2000, whether the category-filtered pass or the unfiltered retry
\* produced them.
C29_OnlyUsableContent ==
    endpoint = "fn" /\ pc = "returned" /\ fnIn.fn = "select" =>
        \A i \in 1..Len(fnOut[1]) :
            /\ \E n \in 1..Len(fnIn.matches) :
                  Usable(fnIn.matches[n]) /\ DerivedFrom(fnOut[1][i], fnOut[2][i], fnIn.matches[n])
            /\ Len(fnOut[2][i]) >= 200
            /\ Len(fnOut[1][i].content) <= 500
            /\ Len(fnOut[2][i]) <= 2000

\* the only match of the expected category was boilerplate, and the
\* unfiltered retry returned the usable match of another category
C29_Witness ==
    /\ endpoint = "fn" /\ pc = "returned" /\ fnIn.fn = "select"
    /\ fnIn.text = "parking" /\ Len(fnIn.matches) = 2
    /\ fnIn.matches[1].category = "parking" /\ ~Usable(fnIn.matches[1])
    /\ fnIn.matches[2].category = "waste_collection"
    /\ Len(fnOut[1]) = 1 /\ fnOut[1][1].category = "waste_collection"

\* a match of more than 2000 cleaned characters came out truncated
C29_WitnessTruncated ==
    /\ endpoint = "fn" /\ pc = "returned" /\ fnIn.fn = "select"
    /\ Len(fnOut[1]) = 1
    /\ Len(fnOut[1][1].content) = 500 /\ Len(fnOut[2][1]) = 2000

\* the age of the cache that the call of _fetch_sitemap_items found
CacheAge == now - fnIn.cache.ts

\* C30: _fetch_sitemap_items makes a GET exactly when the cache it finds is
\* SITEMAP_TTL_SECONDS old or older; when the cache is younger, whatever items
\* the fetch that wrote it gave, none or some, the call returns the items of
\* the cache and leaves the cache as it was.
C30_RefreshByAgeOnly ==
    endpoint = "fn" /\ pc = "returned" /\ fnIn.fn = "sitemap" =>
        /\ Called("sitemap") <=> CacheAge >= SITEMAP_TTL_SECONDS
        /\ CacheAge < SITEMAP_TTL_SECONDS => fnOut = fnIn.cache.items /\ cache = fnIn.cache

\* C32: the citation blocks of build_dynamic_context are numbered 1..n for the
\* n accepted sources, also when resolved URLs were skipped, and block k
\* belongs to the k-th source of the returned list.
C32_BlocksNumberedFromOne ==
    endpoint = "fn" /\ pc = "returned" /\ fnIn.fn = "context" =>
        /\ Len(fnOut.blocks) = Len(fnOut.sources)
        /\ \A k \in 1..Len(fnOut.blocks) :
              fnOut.blocks[k].idx = k /\ fnOut.blocks[k].url = fnOut.sources[k].url

\* the URLs of a list of sources
UrlsOf(srcs) == [i \in 1..Len(srcs) |-> srcs[i].url]

\* the URLs of srcs, in order, whose GET succeeds with at least 300 characters
\* of extracted text
RECURSIVE UsableUrls(_, _)
UsableUrls(srcs, web) ==
    IF srcs = <<>> THEN <<>>
    ELSE LET url == Head(srcs).url
             usable == web[url].ok /\ Len(extract_page_text(web[url])) >= 300
         IN  (IF usable THEN <<url>> ELSE <<>>) \o UsableUrls(Tail(srcs), web)

\* the sources of srcs up to the one with which max_results usable ones are
\* reached
RECURSIVE UpToLimit(_, _, _)
UpToLimit(srcs, usable, max_results) ==
    IF srcs = <<>> THEN <<>>
    ELSE IF Head(srcs).url \in {usable[i] : i \in 1..Len(usable)}
    THEN IF max_results <= 1 THEN <<Head(srcs)>>
         ELSE <<Head(srcs)>> \o UpToLimit(Tail(srcs), usable, max_results - 1)
    ELSE <<Head(srcs)>> \o UpToLimit(Tail(srcs), usable, max_results)

\* C33: build_dynamic_context attempts every resolved URL, whatever pages fail
\* before it, until max_results sources are accepted; the accepted sources are
\* the URLs that were fetched with at least 300 characters of extracted text,
\* in the order in which they were resolved.
C33_FailuresSkippedNotFatal ==
    endpoint = "fn" /\ pc = "returned" /\ fnIn.fn = "context" =>
        \E usable \in {UsableUrls(fnOut.resolved, fnIn.web)} :
            /\ fnOut.tried = UrlsOf(UpToLimit(fnOut.resolved, usable, fnIn.k))
            /\ UrlsOf(fnOut.sources) = Prefix(usable, fnIn.k)

\* C33 witness: a page failed, and a page resolved after it was accepted
C33_Witness ==
    /\ endpoint = "fn" /\ pc = "returned" /\ fnIn.fn = "context"
    /\ \E i, j \in 1..Len(fnOut.resolved) :
          /\ i < j
          /\ ~fnIn.web[fnOut.resolved[i].url].ok
          /\ \E k \in 1..Len(fnOut.sources) : fnOut.sources[k].url = fnOut.resolved[j].url

\* C33 witness: a page between two accepted pages had too little text
C33_WitnessShortBetween ==
    /\ endpoint = "fn" /\ pc = "returned" /\ fnIn.fn = "context"
    /\ Len(fnOut.resolved) = 4 /\ Len(fnOut.tried) = 4
    /\ UrlsOf(fnOut.sources) = <<fnOut.resolved[1].url, fnOut.resolved[4].url>>
    /\ fnIn.web[fnOut.resolved[2].url].ok /\ ~fnIn.web[fnOut.resolved[3].url].ok

\* f"{header}\n{snippet}" with header = f"[{idx}] {title or 'Official source'}\nURL: {url}\n"
BlockText(block) ==
    "[" \o Numeral(block.idx) \o "] " \o block.title \o "\nURL: " \o block.url \o "\n\n" \o block.snippet

\* context_text of build_dynamic_context: "\n\n".join(context_blocks).strip()
ContextText(blocks) == Strip(Join([i \in 1..Len(blocks) |-> BlockText(blocks[i])], "\n\n"))

\* /query/stream took the official-site route and build_dynamic_context returned
OnDynamicRoute ==
    /\ endpoint = "stream" /\ dynamic /\ ~is_greeting_or_simple_query(query)
    /\ Called("build_dynamic_context")

C36_WitnessAnswered ==
    /\ OnDynamicRoute /\ pc = "end"
    /\ sources # <<>> /\ dyn_context # <<>>
    /\ Called("generate")

\* C34: when a results event or a response was sent and an answer had been
\* generated, the answer was given to validate_answer_relevance after the
\* last generation call.
C34_GeneratedAnswersValidated ==
    /\ \/ StreamEnded /\ EventsOfType("results") # {}
       \/ QueryEnded /\ response.status = 200
    /\ Called("generate")
    => \E v \in 1..Len(calls) :
          /\ calls[v].fn = "validate"
          /\ \A g \in 1..Len(calls) : calls[g].fn = "generate" => g < v

\* the one final text event of a fixed English text: the text itself, or for
\* a French user what its translation gave
FixedTextGiven(text_en) ==
    /\ Len(events) = 1 /\ events[1].type = "text" /\ events[1].done
    /\ IF user_language = "fr" THEN Last(calls) = Call("translate", text_en)
       ELSE events[1].content = text_en

\* the routes of /query/stream of which the ended stream shows the marks
RoutesTaken ==
    {r \in {"greeting", "dynamic", "out_of_scope", "live_status_lookup", "static"} :
        CASE r = "greeting" -> ~Called("build_dynamic_context") /\ ~Called("embedding")
                                /\ FixedTextGiven(GREETING_EN)
          [] r = "dynamic" -> Called("build_dynamic_context") /\ ~Called("embedding")
          [] r = "out_of_scope" -> ~Called("build_dynamic_context") /\ ~Called("embedding")
                                    /\ FixedTextGiven(OUT_OF_SCOPE_EN)
          [] r = "live_status_lookup" -> ~Called("build_dynamic_context") /\ ~Called("embedding")
                                          /\ FixedTextGiven(LiveAnswerStream(user_address))
          [] r = "static" -> Called("embedding")}

\* the route that the precedence of generate() gives the question
RouteByPrecedence ==
    IF is_greeting_or_simple_query(query) THEN "greeting"
    ELSE IF classify_dynamic_bucket(query) # "" THEN "dynamic"
    ELSE IF intent_type = "out_of_scope" \/ category = "none" THEN "out_of_scope"
    ELSE IF intent_type = "live_status_lookup" THEN "live_status_lookup"
    ELSE "static"

\* C35: a request to /query/stream follows one route, the first that applies in
\* the order greeting, official-site search, out of scope, live lookup, static
\* knowledge base: a greeting that is also a dynamic question gets the
\* greeting, and a dynamic question classified as out_of_scope or
\* live_status_lookup goes to the official-site search.
C35_OneRouteByPrecedence == StreamEnded => RoutesTaken = {RouteByPrecedence}

\* C35 witness: a dynamic question classified as out of scope was answered
\* from the official-site search
C35_Witness ==
    /\ StreamEnded /\ RoutesTaken = {"dynamic"}
    /\ intent_type = "out_of_scope"
    /\ Called("generate")

\* C35 witness: a greeting that is also a dynamic question got the greeting
C35_WitnessGreeting ==
    /\ StreamEnded /\ RoutesTaken = {"greeting"}
    /\ dynamic

\* C35 witness: a dynamic question classified as a live lookup went to the
\* official-site search
C35_WitnessLiveLookup ==
    /\ StreamEnded /\ RoutesTaken = {"dynamic"}
    /\ intent_type = "live_status_lookup"

\* C37: a question that is just one keyword of a category is classified by
\* classify_question_intent_fallback as policy_explanatory with that category.
C37_EveryKeywordEffective ==
    endpoint = "fn" /\ pc = "returned" /\ fnIn.fn = "fallback" =>
        \A n \in 1..Len(CategoryKeywords) :
            fnIn.text \in CategoryKeywords[n][2] => fnOut = <<"policy_explanatory", CategoryKeywords[n][1]>>

\* the timestamp and items that a refresh of a request in flight wrote, and
\* those that the requests found
Refreshed(w) == [ts |-> frames[w].now, items |-> frames[w].items]

WrittenCaches == {fnIn.cache} \cup {Refreshed(w) : w \in {w \in Requests : frames[w].fetched}}

\* the refreshes that wrote the cache
Writers == {w \in Requests : frames[w].fetched}

\* C31: however the _fetch_sitemap_items calls of the requests in flight are
\* interleaved, a call that looks at the cache finds the timestamp and the
\* items of one refresh, and what a call returns from the cache goes with the
\* timestamp it tested; the cached items are at every moment the whole result
\* of one successful fetch, with allow-listed, non-empty URLs only; and when
\* all calls have returned the cache is what the last writer wrote.
C31_CacheNeverMixed ==
    endpoint = "requests" =>
        /\ \A r \in Requests :
              /\ running = r /\ frames[r].at \in {"test_items", "test_age", "return"} => cache \in WrittenCaches
              /\ frames[r].cached => [ts |-> frames[r].ts, items |-> frames[r].out] \in WrittenCaches
        /\ cache.items \in {c.items : c \in WrittenCaches}
        /\ \A i \in 1..Len(cache.items) :
              cache.items[i].loc # "" /\ _is_allowed_domain(cache.items[i].loc)
        /\ (\A r \in Requests : frames[r].at = "done") =>
              IF Writers = {} THEN cache = fnIn.cache
              ELSE \E w \in Writers :
                      /\ \A v \in Writers : frames[v].wrote <= frames[w].wrote
                      /\ cache = Refreshed(w)

\* C31 witness: two refreshes at different times with different results have
\* ended
C31_Witness ==
    /\ endpoint = "requests"
    /\ \A r \in Requests : frames[r].at = "done"
    /\ \E v, w \in Writers :
          /\ frames[v].wrote < frames[w].wrote
          /\ frames[v].now < frames[w].now
          /\ frames[v].items # frames[w].items /\ frames[v].items # <<>>

\* C31 witness: a call returned from the cache what the refresh of another
\* request in flight wrote
C31_WitnessReader ==
    /\ endpoint = "requests"
    /\ \E r \in Requests, w \in Writers :
          /\ frames[r].cached
          /\ frames[r].ts = frames[w].now /\ frames[r].out = frames[w].items
          /\ Refreshed(w) # fnIn.cache
====
